---- MODULE Spec2Model ----
(***************************************************************************)
(* Model of the RunPod serverless client (src/src/integrations/runpod.py): *)
(* one submit_job call with its poll loop, the single-shot get_job_status  *)
(* and cancel_job operations, and the remote job they talk to.             *)
(* Time is a whole-second wall clock `now`; every HTTP request takes       *)
(* between 0 and MaxReqDur seconds and ends in a 200 response, a non-200   *)
(* response, or a transport error raised by the HTTP library.              *)
(***************************************************************************)
EXTENDS Integers, Sequences, FiniteSets, TLC

\* ---------------------------------------------------------------- bounds
MaxTimeout == 2
MaxPoll == 2
MaxReqDur == 1
MaxCalls == 1

\* ------------------------------------------------------------- constants
None == "None"
NoResult == [success |-> FALSE, job_id |-> None, status |-> "no_result",
             output |-> None, error |-> None, execution_time |-> -1]

JobIds == {"j1", "j2"}
RemoteOutputs == {"Missing", "images"}
RemoteErrors == {"Missing", "remote_error"}
ResponseKinds == {"ok200", "non200", "transport"}
NonTerminalStatuses == {"IN_QUEUE", "IN_PROGRESS"}
TerminalStatuses == {"COMPLETED", "FAILED", "CANCELLED"}

VARIABLES
    now,            \* wall clock, seconds (time.time())
    timeout,        \* RunPodClient.timeout
    poll_interval,  \* RunPodClient.poll_interval
    wait,           \* submit_job's wait_for_completion argument
    pc,             \* position of the submit_job call
    submitStart,    \* start_time of submit_job
    pollStart,      \* start_time of _poll_for_result
    job_id,         \* job_id local of submit_job
    result,         \* JobResult returned by submit_job
    remote,         \* the job on the endpoint: id, status, output, error
    statusQueries,  \* GET /status requests issued by submit_job
    sleeps,         \* asyncio.sleep(poll_interval) calls completed
    lastEvent,      \* last thing the submit_job call did
    lastResp,       \* kind of the last status response in the poll loop
    lastObserved,   \* last status read from a 200 status response
    cancelRequests, \* POST /cancel requests issued by cancel_job
    cancelReturn,   \* last return of cancel_job
    getCalls,       \* get_job_status calls made
    getQueries,     \* GET /status requests issued by get_job_status
    getOutcome,     \* how the last get_job_status call ended
    getResult       \* JobResult returned by the last get_job_status call

clientVars == <<now, timeout, poll_interval, wait, pc, submitStart, pollStart,
                job_id, result, remote, statusQueries, sleeps, lastEvent,
                lastResp, lastObserved, cancelRequests, cancelReturn, getCalls,
                getQueries, getOutcome, getResult>>

getVars == <<getCalls, getQueries, getOutcome, getResult>>
cancelVars == <<cancelRequests, cancelReturn>>
configVars == <<timeout, poll_interval, wait>>

NoRemote == [id |-> None, status |-> "none", output |-> "Missing", error |-> "Missing"]

\* ------------------------------------------- state of the other components
VARIABLES
    inputDir,       \* the input directory: its files in enumeration order
    generate_pdf,   \* run_batch's generate_pdf argument
    b_pc,           \* position of the run_batch call
    image_files,    \* run_batch's image_files list
    idx,            \* 1-based position of the for loop in image_files
    results,        \* run_batch's results list
    outcomes,       \* what happened while processing each file, in order
    submissions,    \* submit_job calls made by the batch
    catalogCalls,   \* create_catalog calls made by the batch
    catalogArgs,    \* images argument of the last create_catalog call
    pages,          \* pages of the document written by create_catalog
    report,         \* the dict returned by run_batch
    jobStatuses     \* status of the JobResult each file's job ended with

batchVars == <<inputDir, generate_pdf, b_pc, image_files, idx, results,
               outcomes, submissions, catalogCalls, catalogArgs, pages, report,
               jobStatuses>>

VARIABLES
    folder,         \* the watched Drive folder: image file ids in listing order
    stopSet,        \* stop_event.is_set()
    w_pc,           \* position of the watch_folder call
    known_files,    \* watch_folder's known_files set
    listings,       \* list_image_files calls made by watch_folder
    callbacks,      \* callback invocations made by watch_folder
    lastList,       \* how the last list_image_files call ended
    lastCallback,   \* how the last callback invocation ended
    lastNew,        \* ids passed to the callback by the last poll that called it
    delivered,      \* every id ever passed to the callback
    presentAtStart, \* ids in the folder when watch_folder was called
    listedAfterStop,\* listings made since the stop signal was set
    calledAfterStop \* callback invocations made since the stop signal was set

watchVars == <<folder, stopSet, w_pc, known_files, listings, callbacks,
               lastList, lastCallback, lastNew, delivered, presentAtStart, listedAfterStop,
               calledAfterStop>>

\* CatalogAssembler (src/src/catalog/assembler.py): one assembler object and
\* the create_catalog calls made on it
VARIABLES
    catalogImages,  \* create_catalog's images argument
    includeCover,   \* create_catalog's include_cover argument
    c_pc,           \* position of the create_catalog call
    c_idx,          \* 1-based position of the for loop in catalogImages
    canvasOpen,     \* a canvas has been created by the running call
    canvasPages,    \* pages closed by showPage on the current canvas
    document,       \* pages of the file written by the last canvas.save()
    saves,          \* canvas.save() calls made
    current_page,   \* CatalogAssembler.current_page
    calls,          \* create_catalog calls started on this assembler
    firstDocument   \* the document written by the first call

catalogVars == <<catalogImages, includeCover, c_pc, c_idx, canvasOpen, canvasPages,
                 document, saves, current_page, calls, firstDocument>>

\* one _draw_single_image call on its own
VARIABLES
    l_pc,           \* position of the _draw_single_image call
    l_file,         \* what image_path names
    l_img,          \* img.getSize() of the file
    l_region,       \* the x, y, width, height arguments
    l_drawn         \* the drawImage call made, if any

layoutVars == <<l_pc, l_file, l_img, l_region, l_drawn>>

assemblerVars == <<catalogVars, layoutVars>>

\* the batch and watch commands of the command line (src/pipeline.py) and
\* the configuration they run with (src/src/config.py)
VARIABLES
    s_cfg,          \* which required settings the environment provides
    s_cmd,          \* the command that was invoked
    s_pc,           \* position of the command
    validateCalls,  \* Config.validate() calls made
    preparedImages, \* images prepared by prepare_garment_image
    submittedJobs,  \* jobs submitted to the endpoint
    folderListings, \* Drive folder listings requested
    s_category,     \* config.pipeline.category, which selects the generator
    s_prepared,     \* prepared_path of the item being processed
    s_workflow,     \* the workflow dict process_single_garment has built
    s_payload       \* payload["input"] of the job posted to the endpoint

startupVars == <<s_cfg, s_cmd, s_pc, validateCalls, preparedImages,
                 submittedJobs, folderListings, s_category, s_prepared,
                 s_workflow, s_payload>>

VARIABLES
    d_pc,           \* watch_drive: "start", "watching"
    d_folder,       \* files in the Drive input folder, in listing order
    d_known,        \* watch_folder's known_files
    d_downloads,    \* files in temp/downloads, in enumeration order
    d_detected,     \* new_files of each callback whose batch ran
    d_submitted     \* per such callback, the files submitted to the endpoint

driveVars == <<d_pc, d_folder, d_known, d_downloads, d_detected, d_submitted>>

VARIABLES
    a_total,        \* len(metadata["images"]) of the /generate request
    a_meta,         \* run_generation's metadata dict
    g_pc,           \* run_generation: "idle", "start", "loop", "await", "done"
    g_i,            \* run_generation's loop index i
    a_exists,       \* metadata_path.exists()
    a_file,         \* content of metadata.json, as the chunks written so far
    a_writer,       \* whose write_text is in progress: "none" or its owner
    a_wdoc,         \* the text that write_text is writing
    a_written,      \* every complete text that has been written to the file
    a_reads,        \* the contents an external observer has read
    c_state,        \* POST /catalog: "idle", "writing", "done", "failed"
    a_pdf,          \* whether the catalog PDF exists on disk
    a_download      \* outcome of the last GET /download after /catalog

apiVars == <<a_total, a_meta, g_pc, g_i, a_exists, a_file, a_writer, a_wdoc,
             a_written, a_reads, c_state, a_pdf, a_download>>

serviceVars == <<driveVars, apiVars>>

vars == <<clientVars, batchVars, watchVars, assemblerVars, startupVars,
          serviceVars>>

NoPath == <<>>
NoReport == [success |-> FALSE, error |-> "no_report"]

\* no batch is running
BatchIdle ==
    /\ inputDir = <<>>
    /\ generate_pdf = TRUE
    /\ b_pc = "idle"
    /\ image_files = <<>>
    /\ idx = 0
    /\ results = <<>>
    /\ outcomes = <<>>
    /\ submissions = 0
    /\ catalogCalls = 0
    /\ catalogArgs = <<>>
    /\ pages = <<>>
    /\ report = NoReport
    /\ jobStatuses = <<>>

\* no watcher is running
WatchIdle ==
    /\ folder = <<>>
    /\ stopSet = FALSE
    /\ w_pc = "idle"
    /\ known_files = {}
    /\ listings = 0
    /\ callbacks = 0
    /\ lastList = "none"
    /\ lastCallback = "none"
    /\ lastNew = {}
    /\ delivered = {}
    /\ presentAtStart = {}
    /\ listedAfterStop = 0
    /\ calledAfterStop = 0

NoDocument == << [kind |-> "no_document"] >>
NoDraw == [drawn |-> FALSE]

\* no create_catalog call has been made
CatalogIdle ==
    /\ catalogImages = <<>>
    /\ includeCover = TRUE
    /\ c_pc = "idle"
    /\ c_idx = 0
    /\ canvasOpen = FALSE
    /\ canvasPages = <<>>
    /\ document = NoDocument
    /\ saves = 0
    /\ current_page = 0
    /\ calls = 0
    /\ firstDocument = NoDocument

\* no _draw_single_image call is being looked at
LayoutIdle ==
    /\ l_pc = "idle"
    /\ l_file = "none"
    /\ l_img = [w |-> 1, h |-> 1]
    /\ l_region = [x |-> 0, y |-> 0, width |-> 1, height |-> 1]
    /\ l_drawn = NoDraw

AssemblerIdle == CatalogIdle /\ LayoutIdle

\* a status document: the fields of the metadata dict that the service
\* writes; "None" stands for an absent key
StatusDoc(status, currentItem, progress, pdfPath) ==
    [status |-> status, currentItem |-> currentItem, progress |-> progress,
     pdfPath |-> pdfPath]

\* the metadata of a job as it arrives with POST /generate
RequestDoc == StatusDoc("None", 0, 0, "None")

DriveIdle ==
    /\ d_pc = "idle"
    /\ d_folder = <<>>
    /\ d_known = {}
    /\ d_downloads = <<>>
    /\ d_detected = <<>>
    /\ d_submitted = <<>>

ApiIdle ==
    /\ a_total = 0
    /\ a_meta = RequestDoc
    /\ g_pc = "off"
    /\ g_i = 0
    /\ a_exists = FALSE
    /\ a_file = <<>>
    /\ a_writer = "none"
    /\ a_wdoc = <<>>
    /\ a_written = {}
    /\ a_reads = {}
    /\ c_state = "off"
    /\ a_pdf = FALSE
    /\ a_download = "none"

ServiceIdle == DriveIdle /\ ApiIdle

NoWorkflow == [k \in {} |-> ""]
NoPayload == [workflow |-> NoWorkflow, images |-> [k \in {} |-> <<>>]]

RequiredSettings ==
    {"api_key", "endpoint_id", "input_folder_id", "output_folder_id"}

\* no command has been invoked
StartupIdle ==
    /\ s_cfg = [k \in RequiredSettings |-> TRUE]
    /\ s_cmd = "none"
    /\ s_pc = "idle"
    /\ validateCalls = 0
    /\ preparedImages = 0
    /\ submittedJobs = 0
    /\ folderListings = 0
    /\ s_category = "teen_boy"
    /\ s_prepared = NoPath
    /\ s_workflow = NoWorkflow
    /\ s_payload = NoPayload

\* no submit_job call is running
ClientIdle ==
    /\ now = 0
    /\ timeout = 0
    /\ poll_interval = 1
    /\ wait = TRUE
    /\ pc = "idle"
    /\ submitStart = 0
    /\ pollStart = 0
    /\ job_id = None
    /\ result = NoResult
    /\ remote = NoRemote
    /\ statusQueries = 0
    /\ sleeps = 0
    /\ lastEvent = "none"
    /\ lastResp = "none"
    /\ lastObserved = "none"
    /\ cancelRequests = 0
    /\ cancelReturn = "none"
    /\ getCalls = 0
    /\ getQueries = 0
    /\ getOutcome = "none"
    /\ getResult = NoResult


\* ----------------------------------------------------- JobResult builders
\* JobResult dataclass: output, error and execution_time default to None (-1)
JobResult(success, id, status, output, error) ==
    [success |-> success, job_id |-> id, status |-> status,
     output |-> output, error |-> error, execution_time |-> -1]

\* submit_job, response.status_code != 200
SubmitErrorResult == JobResult(FALSE, "", "error", None, "Failed to submit job")

QueuedResultNoHandle(id) == JobResult(TRUE, "", "queued", None, None)
\* submit_job, not wait_for_completion
QueuedResult(id) == JobResult(TRUE, id, "queued", None, None)

\* _poll_for_result, timeout branch
TimeoutResult(id) == JobResult(FALSE, id, "timeout", None, "Job timed out")

\* dict.get(key, default) on the status body
GetOr(value, default) == IF value = "Missing" THEN default ELSE value

PollResultReturnsRunning(id, data) ==
    IF data.status = "COMPLETED"
    THEN JobResult(TRUE, id, data.status, GetOr(data.output, "{}"), None)
    ELSE IF data.status = "FAILED"
    THEN JobResult(FALSE, id, data.status, None,
                   GetOr(data.error, "Job failed without error message"))
    ELSE IF data.status = "CANCELLED"
    THEN JobResult(FALSE, id, data.status, None, "Job was cancelled")
    ELSE IF data.status = "IN_PROGRESS"
    THEN JobResult(FALSE, id, data.status, None, None)
    ELSE NoResult
PollResultSwapped(id, data) ==
    IF data.status = "COMPLETED"
    THEN JobResult(TRUE, id, data.status, GetOr(data.output, "{}"), None)
    ELSE IF data.status = "FAILED"
    THEN JobResult(FALSE, id, "CANCELLED", None, "Job was cancelled")
    ELSE IF data.status = "CANCELLED"
    THEN JobResult(FALSE, id, "FAILED", None,
                   GetOr(data.error, "Job failed without error message"))
    ELSE NoResult
\* _poll_for_result, the three status tests after a 200 response;
\* NoResult stands for falling through to the sleep at the loop's end
PollResult(id, data) ==
    IF data.status = "COMPLETED"
    THEN JobResult(TRUE, id, data.status, GetOr(data.output, "{}"), None)
    ELSE IF data.status = "FAILED"
    THEN JobResult(FALSE, id, data.status, None,
                   GetOr(data.error, "Job failed without error message"))
    ELSE IF data.status = "CANCELLED"
    THEN JobResult(FALSE, id, data.status, None, "Job was cancelled")
    ELSE NoResult

StatusResultAlwaysOk(id, data) ==
    JobResult(TRUE, id, data.status,
              GetOr(data.output, None), GetOr(data.error, None))
\* get_job_status, 200 branch: output and error are data.get(...) -> None
StatusResult(id, data) ==
    JobResult(data.status = "COMPLETED", id, data.status,
              GetOr(data.output, None), GetOr(data.error, None))

\* get_job_status, non-200 branch
StatusErrorResult(id) == JobResult(FALSE, id, "error", None, "Failed to get status")

\* time.time() - start_time in _poll_for_result
Elapsed == now - pollStart

TimedOutLate(elapsed) == elapsed > timeout + 1
\* the loop's deadline test
TimedOut(elapsed) == elapsed > timeout

AfterNon200NoSleep == "loop"
\* where the loop goes after a non-200 status response: sleep, then continue
AfterNon200 == "sleep"

\* body of a 200 status response: the endpoint reports the job as it is
StatusBody == [status |-> remote.status, output |-> remote.output, error |-> remote.error]

\* ------------------------------------------------------------------ Init
Init ==
    /\ ServiceIdle
    /\ StartupIdle
    /\ now = 0
    /\ timeout \in 0..MaxTimeout
    /\ poll_interval \in 1..MaxPoll
    /\ wait \in BOOLEAN
    /\ pc = "start"
    /\ submitStart = 0
    /\ pollStart = 0
    /\ job_id = None
    /\ result = NoResult
    /\ remote = NoRemote
    /\ statusQueries = 0
    /\ sleeps = 0
    /\ lastEvent = "none"
    /\ lastResp = "none"
    /\ lastObserved = "none"
    /\ cancelRequests = 0
    /\ cancelReturn = "none"
    /\ getCalls = 0
    /\ getQueries = 0
    /\ getOutcome = "none"
    /\ getResult = NoResult
    /\ BatchIdle
    /\ WatchIdle
    /\ AssemblerIdle

\* --------------------------------------------------------------- actions
\* submit_job up to the end of the POST /run request: the request raises,
\* is rejected, or is accepted; an accepted job is returned as queued or
\* handed to _poll_for_result, whose start_time is taken on entry.
SubmitJob ==
    /\ pc = "start"
    /\ \E d \in 0..MaxReqDur, kind \in ResponseKinds, id \in JobIds :
        /\ now' = now + d
        /\ submitStart' = now
        /\ lastEvent' = "submit"
        /\ IF kind = "transport"
           THEN /\ pc' = "raised"
                /\ UNCHANGED <<result, remote, job_id, pollStart>>
           ELSE IF kind = "non200"
           THEN /\ pc' = "returned"
                /\ result' = SubmitErrorResult
                /\ UNCHANGED <<remote, job_id, pollStart>>
           ELSE /\ remote' = [id |-> id, status |-> "IN_QUEUE",
                              output |-> "Missing", error |-> "Missing"]
                /\ job_id' = id
                /\ IF ~wait
                   THEN /\ pc' = "returned"
                        /\ result' = QueuedResult(id)
                        /\ UNCHANGED pollStart
                   ELSE /\ pc' = "loop"
                        /\ pollStart' = now'
                        /\ UNCHANGED result
    /\ UNCHANGED <<configVars, statusQueries, sleeps, lastResp, lastObserved,
                   cancelVars, getVars, batchVars, watchVars,
                   assemblerVars, startupVars, serviceVars>>

\* _poll_for_result, deadline test true: return the timeout result;
\* submit_job stamps execution_time on it
PollTimeoutCancels ==
    /\ pc = "loop"
    /\ TimedOut(Elapsed)
    /\ pc' = "returned"
    /\ result' = [TimeoutResult(job_id) EXCEPT !.execution_time = now - submitStart]
    /\ lastEvent' = "timeout"
    /\ cancelRequests' = cancelRequests + 1
    /\ remote' = [remote EXCEPT !.status = "CANCELLED"]
    /\ UNCHANGED <<now, configVars, submitStart, pollStart, job_id,
                   statusQueries, sleeps, lastResp, lastObserved,
                   cancelReturn, getVars, batchVars, watchVars,
                   assemblerVars, startupVars, serviceVars>>
PollTimeout ==
    /\ pc = "loop"
    /\ TimedOut(Elapsed)
    /\ pc' = "returned"
    /\ result' = [TimeoutResult(job_id) EXCEPT !.execution_time = now - submitStart]
    /\ lastEvent' = "timeout"
    /\ UNCHANGED <<now, configVars, submitStart, pollStart, job_id, remote,
                   statusQueries, sleeps, lastResp, lastObserved,
                   cancelVars, getVars, batchVars, watchVars,
                   assemblerVars, startupVars, serviceVars>>

\* _poll_for_result, deadline test false: one GET /status request and the
\* handling of its response
PollQuery ==
    /\ pc = "loop"
    /\ ~TimedOut(Elapsed)
    /\ \E d \in 0..MaxReqDur, kind \in ResponseKinds :
        /\ now' = now + d
        /\ statusQueries' = statusQueries + 1
        /\ lastEvent' = "query"
        /\ lastResp' = kind
        /\ IF kind = "transport"
           THEN /\ pc' = "raised"
                /\ UNCHANGED <<result, lastObserved>>
           ELSE IF kind = "non200"
           THEN /\ pc' = AfterNon200
                /\ UNCHANGED <<result, lastObserved>>
           ELSE LET r == PollResult(job_id, StatusBody) IN
                /\ lastObserved' = remote.status
                /\ IF r # NoResult
                   THEN /\ pc' = "returned"
                        /\ result' = [r EXCEPT !.execution_time = now' - submitStart]
                   ELSE /\ pc' = "sleep"
                        /\ UNCHANGED result
    /\ UNCHANGED <<configVars, submitStart, pollStart, job_id, remote, sleeps,
                   cancelVars, getVars, batchVars, watchVars,
                   assemblerVars, startupVars, serviceVars>>

\* await asyncio.sleep(self.poll_interval), then back to the loop's top
PollSleep ==
    /\ pc = "sleep"
    /\ now' = now + poll_interval
    /\ sleeps' = sleeps + 1
    /\ lastEvent' = "sleep"
    /\ pc' = "loop"
    /\ UNCHANGED <<configVars, submitStart, pollStart, job_id, result, remote,
                   statusQueries, lastResp, lastObserved, cancelVars, getVars, batchVars, watchVars,
                   assemblerVars, startupVars, serviceVars>>

\* get_job_status on the accepted job's handle: one GET /status request
\* (the caller makes at most MaxCalls get_job_status and cancel_job calls)
GetJobStatus ==
    /\ remote.status # "none"
    /\ getCalls + cancelRequests < MaxCalls
    /\ getCalls' = getCalls + 1
    /\ getQueries' = getQueries + 1
    /\ \E kind \in ResponseKinds :
        IF kind = "transport"
        THEN /\ getOutcome' = "raised"
             /\ UNCHANGED getResult
        ELSE /\ getOutcome' = "returned"
             /\ getResult' = IF kind = "non200"
                             THEN StatusErrorResult(remote.id)
                             ELSE StatusResult(remote.id, StatusBody)
    /\ UNCHANGED <<now, configVars, pc, submitStart, pollStart, job_id, result,
                   remote, statusQueries, sleeps, lastEvent, lastResp,
                   lastObserved, cancelVars, batchVars, watchVars,
                   assemblerVars, startupVars, serviceVars>>

\* cancel_job on the accepted job's handle: one POST /cancel request; the
\* endpoint cancels a job that is still queued or running
CancelJob ==
    /\ remote.status # "none"
    /\ getCalls + cancelRequests < MaxCalls
    /\ cancelRequests' = cancelRequests + 1
    /\ \E kind \in ResponseKinds :
        IF kind = "ok200"
        THEN /\ cancelReturn' = "True"
             /\ remote' = IF remote.status \in NonTerminalStatuses
                          THEN [remote EXCEPT !.status = "CANCELLED"]
                          ELSE remote
        ELSE /\ cancelReturn' = IF kind = "non200" THEN "False" ELSE "raised"
             /\ UNCHANGED remote
    /\ UNCHANGED <<now, configVars, pc, submitStart, pollStart, job_id, result,
                   statusQueries, sleeps, lastEvent, lastResp, lastObserved,
                   getVars, batchVars, watchVars,
                   assemblerVars, startupVars, serviceVars>>

\* the endpoint's side: a queued job starts, a running job completes or fails
RemoteProgress ==
    /\ remote.status \in NonTerminalStatuses
    /\ \/ /\ remote.status = "IN_QUEUE"
          /\ remote' = [remote EXCEPT !.status = "IN_PROGRESS"]
       \/ /\ remote.status = "IN_PROGRESS"
          /\ \E o \in RemoteOutputs :
                remote' = [remote EXCEPT !.status = "COMPLETED", !.output = o]
       \/ /\ remote.status = "IN_PROGRESS"
          /\ \E e \in RemoteErrors :
                remote' = [remote EXCEPT !.status = "FAILED", !.error = e]
    /\ UNCHANGED <<now, configVars, pc, submitStart, pollStart, job_id, result,
                   statusQueries, sleeps, lastEvent, lastResp, lastObserved,
                   cancelVars, getVars, batchVars, watchVars,
                   assemblerVars, startupVars, serviceVars>>

Next ==
    \/ SubmitJob
    \/ PollTimeout
    \/ PollQuery
    \/ PollSleep
    \/ GetJobStatus
    \/ CancelJob
    \/ RemoteProgress

Spec == Init /\ [][Next]_vars


TypeOK ==
    /\ now \in Nat
    /\ pc \in {"start", "loop", "sleep", "returned", "raised"}
    /\ remote.status \in {"none"} \cup NonTerminalStatuses \cup TerminalStatuses

\* ---------------------------------------------------------------- claims
QueryIssued == statusQueries' > statusQueries
TimeoutReturned == pc = "loop" /\ pc' = "returned" /\ result'.status = "timeout"

\* C1: a waiting submit_job on an accepted job whose remote status never
\* turns terminal ends by returning the 'timeout' result, no later than
\* timeout + poll_interval seconds after the submission began.
C1_TimedOutWithinTPlusP ==
    (wait /\ remote.status \in NonTerminalStatuses /\ pc \in {"returned", "raised"})
        => /\ pc = "returned"
           /\ result.status = "timeout"
           /\ now - submitStart <= timeout + poll_interval

\* C2: after a status query that ended in a non-200 response or a transport
\* error the poll loop is still running (sleeping, or back at its top), or
\* has ended on the timeout bound or a terminal status; it never ends on
\* the error itself.
C2_TransientErrorNeverEndsLoop ==
    lastResp \in {"non200", "transport"}
        => \/ pc \in {"sleep", "loop"}
           \/ /\ pc = "returned"
              /\ result.status \in TerminalStatuses \cup {"timeout"}

\* C3: every result returned by a waiting submit_job is terminal (COMPLETED,
\* FAILED, CANCELLED, timeout, or the submission error); when the last status
\* it observed was IN_QUEUE or IN_PROGRESS, the result is the timeout result
\* and the time elapsed in the poll loop exceeds the timeout.
C3_ReturnsOnlyTerminal ==
    (pc = "returned" /\ wait)
        => /\ result.status \in {"COMPLETED", "FAILED", "CANCELLED", "timeout", "error"}
           /\ lastObserved \in NonTerminalStatuses
                => /\ result.status = "timeout"
                   /\ now - pollStart > timeout

C3_Witness ==
    /\ pc = "returned"
    /\ wait
    /\ lastObserved = "IN_PROGRESS"
    /\ result.status = "timeout"

\* C4: a non-waiting submit_job on an accepted submission returns the
\* non-terminal 'queued' result with success set and the handle the endpoint
\* returned, having issued no status query and slept no poll interval.
C4_QueuedWithoutQuery ==
    (pc = "returned" /\ ~wait /\ remote.status # "none")
        => /\ result.status = "queued"
           /\ result.success
           /\ result.job_id = remote.id
           /\ result.job_id \in JobIds
           /\ statusQueries = 0
           /\ sleeps = 0

C4_Witness ==
    /\ pc = "returned"
    /\ ~wait
    /\ result.status = "queued"
    /\ result.job_id = "j2"

\* C5 (as stated): the deadline test measures from the moment of submission,
\* so a status query is issued only while no more than timeout seconds have
\* passed since submit_job began.
C5_ElapsedFromSubmission ==
    [][QueryIssued => now - submitStart <= timeout]_vars

\* C5 (amended): the deadline test measures from the start of polling, the
\* moment the submission response arrived: polling starts with its start
\* time equal to the clock after the POST, a status query is issued only
\* while no more than timeout seconds have passed since then, and the
\* timeout result is returned only when more than timeout seconds have.
C5_ElapsedFromPollStart ==
    [][/\ (pc = "start" /\ pc' = "loop") => pollStart' = now'
       /\ QueryIssued => now - pollStart <= timeout
       /\ TimeoutReturned => now - pollStart > timeout]_vars

C5_Witness ==
    /\ statusQueries > 0
    /\ pollStart > submitStart
    /\ now - submitStart > timeout
    /\ lastEvent = "query"

\* C6 (as stated): every status query of the poll loop is directly preceded
\* by a poll_interval sleep.
C6_SleepBeforeEveryQuery ==
    [][QueryIssued => lastEvent = "sleep"]_vars

\* C6 (amended): the first status query is issued right after acceptance
\* with no sleep before it; every later status query is directly preceded by
\* a poll_interval sleep, so the queries never outnumber the sleeps by more
\* than one.
C6_SleepBetweenQueries ==
    [][QueryIssued =>
         /\ IF statusQueries = 0
            THEN lastEvent = "submit" /\ sleeps = 0
            ELSE lastEvent = "sleep"
         /\ statusQueries = sleeps]_vars

C6_Witness ==
    /\ statusQueries >= 2
    /\ sleeps >= 1
    /\ lastResp = "non200"

\* C7: a 200 status response is mapped exactly: COMPLETED returns success
\* with the output attached, FAILED returns a failure with status FAILED,
\* CANCELLED returns a failure with status CANCELLED, and IN_QUEUE or
\* IN_PROGRESS returns nothing and goes on to sleep.
C7_StatusMapping ==
    [][(QueryIssued /\ lastResp' = "ok200") =>
         /\ remote.status = "COMPLETED" =>
              /\ pc' = "returned"
              /\ result'.success
              /\ result'.status = "COMPLETED"
              /\ result'.output = IF remote.output = "Missing" THEN "{}" ELSE remote.output
         /\ remote.status = "FAILED" =>
              /\ pc' = "returned"
              /\ ~result'.success
              /\ result'.status = "FAILED"
              /\ result'.error # None
         /\ remote.status = "CANCELLED" =>
              /\ pc' = "returned"
              /\ ~result'.success
              /\ result'.status = "CANCELLED"
         /\ remote.status \in NonTerminalStatuses =>
              /\ pc' = "sleep"
              /\ result' = result]_vars

C7_Witness ==
    /\ pc = "returned"
    /\ result.status = "FAILED"
    /\ result.error = "remote_error"
    /\ sleeps > 0

\* C8: the step that returns the timeout result sends no cancel request and
\* leaves the remote job exactly as it was.
C8_TimeoutSendsNoCancel ==
    [][TimeoutReturned => cancelRequests' = cancelRequests /\ remote' = remote]_vars

C8_Witness ==
    /\ pc = "returned"
    /\ result.status = "timeout"
    /\ remote.status \in NonTerminalStatuses
    /\ cancelRequests = 0

\* C9: every get_job_status call issues exactly one status query and
\* returns a result; it never ends by raising, and an error result is a
\* failure with a message.
C9_GetStatusNeverRaises ==
    /\ getOutcome \in {"none", "returned"}
    /\ getQueries = getCalls
    /\ getResult.status = "error" => ~getResult.success /\ getResult.error # None

\* C10: a submit_job whose submission was not accepted (no job exists on the
\* endpoint) returns the failure result with status 'error', an empty handle
\* and an error message, and has issued no status query.
C10_RejectedSubmissionReturnsError ==
    (pc \in {"returned", "raised"} /\ remote.status = "none")
        => /\ pc = "returned"
           /\ ~result.success
           /\ result.status = "error"
           /\ result.job_id = ""
           /\ result.error # None
           /\ statusQueries = 0

\* =========================================================================
\* Batch orchestration: FashionCatalogPipeline.run_batch (src/pipeline.py)
\* with process_single_garment, RunPodClient.submit_workflow_with_images and
\* CatalogAssembler.create_catalog. A Python dict is a function from its
\* keys; a path is a tuple, NoPath stands for None.
\* =========================================================================
MaxDirFiles == 3

\* ImageProcessor.SUPPORTED_FORMATS, in the order the for loop visits it
SupportedFormats == <<".png", ".jpg", ".jpeg", ".webp">>

\* str.upper() on the supported extensions
Upper(ext) ==
    CASE ext = ".png" -> ".PNG"
      [] ext = ".jpg" -> ".JPG"
      [] ext = ".jpeg" -> ".JPEG"
      [] ext = ".webp" -> ".WEBP"

\* files an input directory may hold: stem and suffix as spelled on disk
FilePool ==
    { [stem |-> "a", ext |-> ".png"], [stem |-> "b", ext |-> ".JPG"],
      [stem |-> "c", ext |-> ".Png"], [stem |-> "d", ext |-> ".txt"],
      [stem |-> "e", ext |-> ".png"] }

RECURSIVE DistinctSeqs(_, _)
\* the sequences of at most n distinct elements of S
DistinctSeqs(S, n) ==
    IF n = 0 THEN {<<>>}
    ELSE {<<>>} \cup UNION { { <<x>> \o t : t \in DistinctSeqs(S \ {x}, n - 1) } : x \in S }

\* str.lower() on the suffixes of FilePool
Lower(ext) ==
    CASE ext \in {".png", ".PNG", ".Png"} -> ".png"
      [] ext \in {".jpg", ".JPG"} -> ".jpg"
      [] ext \in {".jpeg", ".JPEG"} -> ".jpeg"
      [] ext \in {".webp", ".WEBP"} -> ".webp"
      [] OTHER -> ext

GlobIgnoringCase(dir, ext) == SelectSeq(dir, LAMBDA f : Lower(f.ext) = Lower(ext))
\* input_path.glob("*" + ext): the directory's files whose name ends in ext,
\* matched case-sensitively, in enumeration order
Glob(dir, ext) == SelectSeq(dir, LAMBDA f : f.ext = ext)

RECURSIVE DiscoverFrom(_, _)
\* run_batch's discovery loop over SUPPORTED_FORMATS from position k on
DiscoverFrom(dir, k) ==
    IF k > Len(SupportedFormats) THEN <<>>
    ELSE Glob(dir, SupportedFormats[k]) \o Glob(dir, Upper(SupportedFormats[k]))
         \o DiscoverFrom(dir, k + 1)

\* run_batch's image_files
Discover(dir) == DiscoverFrom(dir, 1)

\* dict.get(key, default)
Get(d, k, default) == IF k \in DOMAIN d THEN d[k] ELSE default

\* r.get("success") as a truth value
Succeeded(r) == Get(r, "success", FALSE)

\* dict literal {**a, **b}: b's entries win
Merge(a, b) == [k \in DOMAIN a \cup DOMAIN b |-> IF k \in DOMAIN b THEN b[k] ELSE a[k]]

\* the output keys a COMPLETED job may carry
OutputKeySets ==
    { {}, {"final"}, {"full_body"}, {"full_body", "final"},
      {"full_body", "closeup", "final"} }

\* the error texts of unsuccessful JobResults
JobErrors ==
    { SubmitErrorResult.error, TimeoutResult(None).error,
      "remote_error", "Job was cancelled" }

\* the unsuccessful JobResults submit_job can return for job id: rejected
\* submission, timeout, remote failure with and without error text,
\* cancellation
FailedJobResults(id) ==
    { SubmitErrorResult,
      TimeoutResult(id),
      PollResult(id, [status |-> "FAILED", output |-> "Missing",
                      error |-> "remote_error"]),
      PollResult(id, [status |-> "FAILED", output |-> "Missing",
                      error |-> "Missing"]),
      PollResult(id, [status |-> "CANCELLED", output |-> "Missing",
                      error |-> "Missing"]) }

WorkflowFailureGeneric(err) == [k \in {"success", "error"} |->
                                   IF k = "success" THEN FALSE ELSE "failed"]
\* submit_workflow_with_images, unsuccessful JobResult
WorkflowFailure(err) == [k \in {"success", "error"} |->
                            IF k = "success" THEN FALSE ELSE err]

\* submit_workflow_with_images, successful JobResult with output keys K
WorkflowSuccess(id, K) ==
    Merge(
      Merge([k \in {"success"} |-> TRUE], [k \in {"job_id"} |-> id]),
      [k \in { "full_body_path" : x \in K \cap {"full_body"} }
            \cup { "closeup_path" : x \in K \cap {"closeup"} }
            \cup { "output_path" : x \in K \cap {"final"} } |->
          CASE k = "full_body_path" -> <<"full_body", id>>
            [] k = "closeup_path" -> <<"closeup", id>>
            [] k = "output_path" -> <<"final", id>>])

\* process_single_garment after a successful job: the close-up derived from
\* the full-body output replaces closeup_path
WithCloseup(r, stem) ==
    IF "full_body_path" \in DOMAIN r
    THEN Merge(r, [k \in {"closeup_path"} |-> <<"closeup_of", stem>>])
    ELSE r

\* run_batch, try branch: result["garment_name"] = garment_path.stem
Named(r, stem) == Merge(r, [k \in {"garment_name"} |-> stem])

\* run_batch, except branch
ExceptResult(stem) ==
    [k \in {"success", "error", "garment_name"} |->
        CASE k = "success" -> FALSE
          [] k = "error" -> "exception"
          [] k = "garment_name" -> stem]

\* what can happen while one file is processed
ItemOutcomeKinds ==
    {"prepare_raised", "submit_raised", "job_failed", "local_raised", "ok"}

AfterItemExceptionPropagates == "raised"
\* where run_batch goes after the except branch recorded a failure
AfterItemException == "loop"

\* create_catalog: full_body = image_set.get('full_body') or image_set.get('output_path')
PrimaryOf(image) ==
    IF Get(image, "full_body", NoPath) # NoPath
    THEN image["full_body"]
    ELSE Get(image, "output_path", NoPath)

\* create_catalog: the product page composed for entry i
ProductPage(image, i) ==
    [kind |-> "product", primary |-> PrimaryOf(image),
     secondary |-> Get(image, "closeup", NoPath), number |-> i]

\* create_catalog: cover, one product page per entry in order, back cover
CatalogPages(images, include_cover) ==
    (IF include_cover THEN << [kind |-> "cover"] >> ELSE <<>>)
    \o [i \in 1..Len(images) |-> ProductPage(images[i], i)]
    \o (IF include_cover THEN << [kind |-> "back_cover"] >> ELSE <<>>)

\* _draw_single_image calls os.path.exists(image_path) outside its try
\* block, which raises TypeError for None
CatalogRaisesOnData(images) ==
    \E i \in 1..Len(images) : PrimaryOf(images[i]) = NoPath

PassAllResults(rs) == rs
\* run_batch: successful_results = [r for r in results if r.get("success")]
SuccessfulResults(rs) == SelectSeq(rs, Succeeded)

BatchReportCountsAll(files, rs, pdf_path) ==
    [success |-> TRUE,
     total |-> Len(files),
     processed |-> Len(SelectSeq(rs, Succeeded)),
     failed |-> Len(rs),
     pdf_path |-> pdf_path,
     results |-> rs]
\* run_batch's final return
BatchReport(files, rs, pdf_path) ==
    [success |-> TRUE,
     total |-> Len(files),
     processed |-> Len(SelectSeq(rs, Succeeded)),
     failed |-> Len(SelectSeq(rs, LAMBDA r : ~Succeeded(r))),
     pdf_path |-> pdf_path,
     results |-> rs]

EmptyReportSucceeds == [success |-> TRUE, error |-> "No images found"]
\* run_batch's return when no image was found
EmptyReport == [success |-> FALSE, error |-> "No images found"]

InitBatch ==
    /\ ServiceIdle
    /\ StartupIdle
    /\ ClientIdle
    /\ WatchIdle
    /\ AssemblerIdle
    /\ inputDir \in DistinctSeqs(FilePool, MaxDirFiles)
    /\ generate_pdf \in BOOLEAN
    /\ b_pc = "start"
    /\ image_files = <<>>
    /\ idx = 0
    /\ results = <<>>
    /\ outcomes = <<>>
    /\ submissions = 0
    /\ catalogCalls = 0
    /\ catalogArgs = <<>>
    /\ pages = <<>>
    /\ report = NoReport
    /\ jobStatuses = <<>>

\* run_batch up to the for loop: discovery, the empty-batch return
DiscoverFiles ==
    /\ b_pc = "start"
    /\ image_files' = Discover(inputDir)
    /\ IF image_files' = <<>>
       THEN /\ report' = EmptyReport
            /\ b_pc' = "done"
            /\ idx' = idx
       ELSE /\ b_pc' = "loop"
            /\ idx' = 1
            /\ UNCHANGED report
    /\ UNCHANGED <<inputDir, generate_pdf, results, outcomes, submissions,
                   catalogCalls, catalogArgs, pages, jobStatuses, clientVars,
                   watchVars,
                   assemblerVars, startupVars, serviceVars>>

\* one iteration of run_batch's for loop: process_single_garment in its
\* try/except, one result appended
ProcessItem ==
    /\ b_pc = "loop"
    /\ idx <= Len(image_files)
    /\ LET stem == image_files[idx].stem IN
       \E kind \in ItemOutcomeKinds :
        /\ outcomes' = Append(outcomes, kind)
        /\ submissions' = IF kind = "prepare_raised" THEN submissions ELSE submissions + 1
        /\ \/ /\ kind \in {"prepare_raised", "submit_raised", "local_raised"}
              /\ results' = Append(results, ExceptResult(stem))
              /\ jobStatuses' = Append(jobStatuses,
                                       IF kind = "local_raised" THEN "COMPLETED"
                                       ELSE "none")
              /\ b_pc' = AfterItemException
           \/ /\ kind = "job_failed"
              /\ \E jr \in FailedJobResults("job") :
                    /\ results' = Append(results,
                                         Named(WorkflowFailure(jr.error), stem))
                    /\ jobStatuses' = Append(jobStatuses, jr.status)
              /\ b_pc' = "loop"
           \/ /\ kind = "ok"
              /\ \E K \in OutputKeySets :
                    results' = Append(results,
                                 Named(WithCloseup(WorkflowSuccess(idx, K), stem), stem))
              /\ jobStatuses' = Append(jobStatuses, "COMPLETED")
              /\ b_pc' = "loop"
    /\ idx' = idx + 1
    /\ UNCHANGED <<inputDir, generate_pdf, image_files, catalogCalls,
                   catalogArgs, pages, report, clientVars, watchVars,
                   assemblerVars, startupVars, serviceVars>>

\* run_batch after the loop: the optional create_catalog call, then the return
FinishBatch ==
    /\ b_pc = "loop"
    /\ idx > Len(image_files)
    /\ LET successful_results == SuccessfulResults(results) IN
       IF generate_pdf /\ successful_results # <<>>
       THEN /\ catalogCalls' = catalogCalls + 1
            /\ catalogArgs' = successful_results
            /\ \E io_fails \in BOOLEAN :
                IF io_fails \/ CatalogRaisesOnData(successful_results)
                THEN /\ b_pc' = "raised"
                     /\ UNCHANGED <<pages, report>>
                ELSE /\ pages' = CatalogPages(successful_results, TRUE)
                     /\ report' = BatchReport(image_files, results, <<"Final_Catalog">>)
                     /\ b_pc' = "done"
       ELSE /\ report' = BatchReport(image_files, results, NoPath)
            /\ b_pc' = "done"
            /\ UNCHANGED <<catalogCalls, catalogArgs, pages>>
    /\ UNCHANGED <<inputDir, generate_pdf, image_files, idx, results, outcomes,
                   submissions, jobStatuses, clientVars, watchVars,
                   assemblerVars, startupVars, serviceVars>>

NextBatch ==
    \/ DiscoverFiles
    \/ ProcessItem
    \/ FinishBatch

SpecBatch == InitBatch /\ [][NextBatch]_vars

\* batch command: exit status for the report run_batch returned
BatchExitCode(rep) == IF rep.success THEN 0 ELSE 1

\* ---------------------------------------------------------- batch claims
SupportedSet == { SupportedFormats[k] : k \in 1..Len(SupportedFormats) }
HasSupportedFile(dir) == \E i \in 1..Len(dir) : Lower(dir[i].ext) \in SupportedSet
SuccessIndexes(rs) == { i \in 1..Len(rs) : rs[i]["success"] }
BatchReturned == b_pc = "done" /\ image_files # <<>>

\* C11: a file whose processing raised or whose job was unsuccessful gets a
\* failed result of its own and the loop goes on: results and outcomes stay
\* aligned file by file, a result is successful exactly when that file's
\* processing went through, and run_batch never ends (by return or by an
\* exception) before every discovered file has its result.
C11_ItemFailureIsolated ==
    /\ Len(results) = Len(outcomes)
    /\ \A i \in 1..Len(results) :
         /\ results[i]["success"] <=> outcomes[i] = "ok"
         /\ results[i]["garment_name"] = image_files[i].stem
    /\ b_pc = "loop" => Len(results) = idx - 1
    /\ (b_pc \in {"done", "raised"} /\ image_files # <<>>)
         => Len(results) = Len(image_files)

C11_Witness ==
    /\ b_pc = "done"
    /\ Len(results) = 3
    /\ outcomes[1] = "submit_raised"
    /\ outcomes[2] = "job_failed"
    /\ outcomes[3] = "ok"
    /\ results[3]["success"]

\* C12: run_batch on a directory without any file of a supported extension
\* (in any letter case) ends by returning success=false with a non-empty
\* error, and has submitted no job and composed no document.
C12_EmptyBatchReported ==
    (b_pc # "start" /\ ~HasSupportedFile(inputDir))
        => /\ b_pc = "done"
           /\ report.success = FALSE
           /\ report.error \notin {"", "no_report"}
           /\ submissions = 0
           /\ catalogCalls = 0
           /\ pages = <<>>

C12_Witness ==
    /\ b_pc = "done"
    /\ Len(inputDir) = 1
    /\ inputDir[1].ext = ".txt"
    /\ report.error = "No images found"

\* C13: the report's result list has one entry per discovered file, entry i
\* being the outcome of the i-th discovered file, and no file is discovered
\* twice.
C13_OneResultPerFileInOrder ==
    BatchReturned
        => /\ Len(report.results) = Len(image_files)
           /\ \A i \in 1..Len(image_files) :
                report.results[i]["garment_name"] = image_files[i].stem
           /\ \A i, j \in 1..Len(image_files) :
                image_files[i] = image_files[j] => i = j

C13_Witness ==
    /\ BatchReturned
    /\ Len(report.results) = 3
    /\ report.results[1]["garment_name"] = "e"
    /\ report.results[2]["garment_name"] = "a"
    /\ report.results[3]["garment_name"] = "b"
    /\ inputDir[1].stem = "b"

\* C14: in the report of a non-empty batch total is the number of discovered
\* files, processed the number of successful results, failed the number of
\* unsuccessful ones, and processed + failed = total.
C14_CountsAddUp ==
    BatchReturned
        => /\ report.total = Len(image_files)
           /\ report.processed = Cardinality(SuccessIndexes(report.results))
           /\ report.failed = Len(report.results)
                                - Cardinality(SuccessIndexes(report.results))
           /\ report.processed + report.failed = report.total

C14_Witness ==
    /\ BatchReturned
    /\ report.total = 3
    /\ report.processed = 2
    /\ report.failed = 1

\* C15: create_catalog is called only once every file has its result, and
\* only with generate_pdf set and a successful item; a returned report has
\* its pdf_path set exactly in that case, the call then got exactly the
\* successful results in discovery order and the document has one product
\* page per successful item; otherwise no call is made and pdf_path is unset.
C15_CatalogFromSuccessfulItems ==
    /\ catalogCalls > 0
         => /\ generate_pdf
            /\ catalogCalls = 1
            /\ Len(results) = Len(image_files)
            /\ SuccessIndexes(results) # {}
            /\ Len(catalogArgs) = Cardinality(SuccessIndexes(results))
            /\ \A k \in 1..Len(catalogArgs) : catalogArgs[k]["success"]
            /\ \A i \in 1..Len(results) : \A j \in 1..Len(results) :
                 (i < j /\ results[i]["success"] /\ results[j]["success"])
                    => \E k, l \in 1..Len(catalogArgs) :
                         /\ k < l
                         /\ catalogArgs[k] = results[i]
                         /\ catalogArgs[l] = results[j]
    /\ BatchReturned
         => /\ report.pdf_path # NoPath
                <=> (generate_pdf /\ SuccessIndexes(results) # {})
            /\ report.pdf_path # NoPath <=> catalogCalls = 1
            /\ report.pdf_path # NoPath
                => Cardinality({ p \in 1..Len(pages) : pages[p].kind = "product" })
                     = report.processed
            /\ report.pdf_path = NoPath => pages = <<>>

C15_Witness ==
    /\ BatchReturned
    /\ report.pdf_path # NoPath
    /\ report.processed = 2
    /\ report.failed = 1
    /\ outcomes[2] # "ok"
    /\ Len(pages) = 4

\* C16: when create_catalog fails inside run_batch, run_batch still returns
\* its report, with the per-item results and counts and pdf_path unset.
C16_DocumentFailureKeepsReport ==
    (catalogCalls > 0 /\ pages = <<>> /\ b_pc # "loop")
        => /\ b_pc = "done"
           /\ report.success
           /\ report.pdf_path = NoPath
           /\ report.results = results
           /\ report.total = Len(image_files)

\* C17: a batch with discovered files of which none succeeded is returned as
\* a failure: success is false in the report and the batch command exits 1.
C17_AllFailedIsFailure ==
    (BatchReturned /\ SuccessIndexes(results) = {})
        => /\ report.success = FALSE
           /\ BatchExitCode(report) = 1

\* =========================================================================
\* Folder watcher: GoogleDriveClient.watch_folder with list_image_files
\* (src/src/integrations/google_drive.py). The folder is the sequence of its
\* image file ids in the order the Drive API lists them.
\* =========================================================================
MaxIds == 3
MaxPolls == 2
\* list_files asks for one page of page_size files and reads no further
\* page; the model's page holds MaxListed files
MaxListed == 2

FileIds == 1..MaxIds

\* the elements of a sequence
Range(seq) == { seq[i] : i \in 1..Len(seq) }

\* list_image_files: the first page of the folder's image files
ListImageFiles(fld) ==
    SubSeq(fld, 1, IF Len(fld) < MaxListed THEN Len(fld) ELSE MaxListed)

NewFilesAll(current, known) == Range(current)
\* new_files = [f for f in current_files if f.id not in known_files]
NewFiles(current, known) == { f \in Range(current) : f \notin known }

StopNeverSeen == FALSE
\* stop_event and stop_event.is_set()
StopRequested == stopSet

AfterPollExceptionPropagates == "raised"
\* except Exception as e: the error is logged and the while loop goes on
AfterPollException == "check"

AddKnownReplaces(known, new_files) == new_files
\* for f in new_files: known_files.add(f.id)
AddKnown(known, new_files) == known \cup new_files

KnownBeforeCallback(known, new_files, callback_ok) == AddKnown(known, new_files)
\* callback(new_files) comes first: when it raises, the add loop is skipped
KnownAfterCallback(known, new_files, callback_ok) ==
    IF callback_ok THEN AddKnown(known, new_files) ELSE known

InitWatch ==
    /\ ServiceIdle
    /\ StartupIdle
    /\ ClientIdle
    /\ BatchIdle
    /\ AssemblerIdle
    /\ folder \in DistinctSeqs(FileIds, MaxIds)
    /\ presentAtStart = Range(folder)
    /\ stopSet = FALSE
    /\ w_pc = "start"
    /\ known_files = {}
    /\ listings = 0
    /\ callbacks = 0
    /\ lastList = "none"
    /\ lastCallback = "none"
    /\ lastNew = {}
    /\ delivered = {}
    /\ listedAfterStop = 0
    /\ calledAfterStop = 0

\* watch_folder up to the loop: the initial scan, outside any try block
WatchStart ==
    /\ w_pc = "start"
    /\ listings' = listings + 1
    /\ listedAfterStop' = IF stopSet THEN listedAfterStop + 1 ELSE listedAfterStop
    /\ \E ok \in BOOLEAN :
        IF ok
        THEN /\ lastList' = "ok"
             /\ known_files' = Range(ListImageFiles(folder))
             /\ w_pc' = "check"
        ELSE /\ lastList' = "error"
             /\ w_pc' = "raised"
             /\ UNCHANGED known_files
    /\ UNCHANGED <<folder, stopSet, callbacks, lastCallback, lastNew, delivered,
                   presentAtStart, calledAfterStop, clientVars, batchVars,
                   assemblerVars, startupVars, serviceVars>>

\* top of the while loop: the stop test, then into time.sleep
WatchCheck ==
    /\ w_pc = "check"
    /\ w_pc' = IF StopRequested THEN "exited" ELSE "sleep"
    /\ UNCHANGED <<folder, stopSet, known_files, listings, callbacks, lastList,
                   lastCallback, lastNew, delivered, presentAtStart,
                   listedAfterStop, calledAfterStop, clientVars, batchVars,
                   assemblerVars, startupVars, serviceVars>>

\* the rest of one iteration: the sleep ends, the folder is listed, the
\* callback gets the new files and they become known; an exception of the
\* listing or of the callback is logged by the except branch
WatchPoll ==
    /\ w_pc = "sleep"
    /\ listings <= MaxPolls \/ stopSet
    /\ listings' = listings + 1
    /\ listedAfterStop' = IF stopSet THEN listedAfterStop + 1 ELSE listedAfterStop
    /\ \E list_ok \in BOOLEAN, callback_ok \in BOOLEAN :
        LET new_files == NewFiles(ListImageFiles(folder), known_files) IN
        IF ~list_ok
        THEN /\ lastList' = "error"
             /\ w_pc' = AfterPollException
             /\ UNCHANGED <<known_files, callbacks, lastCallback, lastNew,
                            delivered, calledAfterStop>>
        ELSE /\ lastList' = "ok"
             /\ IF new_files = {}
                THEN /\ w_pc' = "check"
                     /\ UNCHANGED <<known_files, callbacks, lastCallback,
                                    lastNew, delivered, calledAfterStop>>
                ELSE /\ callbacks' = callbacks + 1
                     /\ calledAfterStop' = IF stopSet THEN calledAfterStop + 1
                                           ELSE calledAfterStop
                     /\ lastNew' = new_files
                     /\ delivered' = delivered \cup new_files
                     /\ lastCallback' = IF callback_ok THEN "ok" ELSE "raised"
                     /\ w_pc' = IF callback_ok THEN "check"
                                ELSE AfterPollException
                     /\ known_files' = KnownAfterCallback(known_files,
                                                          new_files, callback_ok)
    /\ UNCHANGED <<folder, stopSet, presentAtStart, clientVars, batchVars,
                   assemblerVars, startupVars, serviceVars>>

\* another thread sets the stop event while the loop is running
SetStop ==
    /\ ~stopSet
    /\ w_pc \in {"check", "sleep"}
    /\ stopSet' = TRUE
    /\ UNCHANGED <<folder, w_pc, known_files, listings, callbacks, lastList,
                   lastCallback, lastNew, delivered, presentAtStart,
                   listedAfterStop, calledAfterStop, clientVars, batchVars,
                   assemblerVars, startupVars, serviceVars>>

\* an image file is put into the Drive folder between two listings
AddFile ==
    /\ w_pc = "sleep"
    /\ \E f \in FileIds \ Range(folder) : folder' = Append(folder, f)
    /\ UNCHANGED <<stopSet, w_pc, known_files, listings, callbacks, lastList,
                   lastCallback, lastNew, delivered, presentAtStart,
                   listedAfterStop, calledAfterStop, clientVars, batchVars,
                   assemblerVars, startupVars, serviceVars>>

\* an image file is taken out of the Drive folder between two listings
RemoveFile ==
    /\ w_pc = "sleep"
    /\ \E f \in Range(folder) : folder' = SelectSeq(folder, LAMBDA g : g # f)
    /\ UNCHANGED <<stopSet, w_pc, known_files, listings, callbacks, lastList,
                   lastCallback, lastNew, delivered, presentAtStart,
                   listedAfterStop, calledAfterStop, clientVars, batchVars,
                   assemblerVars, startupVars, serviceVars>>

\* a KeyboardInterrupt arrives while the loop runs: it is no Exception, so
\* the except branch of the loop does not catch it and it leaves
\* watch_folder; the handler in watch_drive then sets the stop event
Interrupt ==
    /\ w_pc \in {"check", "sleep"}
    /\ w_pc' = "interrupted"
    /\ stopSet' = TRUE
    /\ UNCHANGED <<folder, known_files, listings, callbacks, lastList,
                   lastCallback, lastNew, delivered, presentAtStart,
                   listedAfterStop, calledAfterStop, clientVars, batchVars,
                   assemblerVars, startupVars, serviceVars>>

NextWatch ==
    \/ WatchStart
    \/ WatchCheck
    \/ WatchPoll
    \/ SetStop
    \/ AddFile
    \/ RemoveFile
    \/ Interrupt

SpecWatch == InitWatch /\ [][NextWatch]_vars

\* the loop has no blocking step but the sleep and the calls it makes, which
\* return: the stop test and the rest of the iteration are always taken
SpecWatchFair == SpecWatch /\ WF_vars(WatchCheck) /\ WF_vars(WatchPoll)

\* the while loop of watch_folder is being executed
LoopRunning == w_pc \in {"check", "sleep"}

\* -------------------------------------------------------- watcher claims
\* C18: after the initial scan every listed id is known and no callback has
\* been made, and no id that was in the folder when the watch started is
\* ever passed to the callback.
C18_InitialItemsNeverReported ==
    /\ (listings = 1 /\ w_pc = "check") => callbacks = 0
    /\ delivered \cap presentAtStart = {}

\* C19: a poll whose listing succeeded and holds ids that are not known
\* invokes the callback once, with exactly those ids, and adds them to
\* known when the callback returns; a poll whose listing holds no new id
\* invokes no callback and leaves known as it is.
C19_CallbackOncePerPollWithNewItems ==
    [][(w_pc = "sleep" /\ listings' = listings + 1 /\ lastList' = "ok") =>
         LET new == { f \in Range(ListImageFiles(folder)) : f \notin known_files } IN
         IF new # {}
         THEN /\ callbacks' = callbacks + 1
              /\ lastNew' = new
              /\ lastCallback' = "ok" => known_files' = known_files \cup new
         ELSE /\ callbacks' = callbacks
              /\ known_files' = known_files]_vars

C19_Witness ==
    /\ Cardinality(presentAtStart) = 1
    /\ callbacks = 1
    /\ Cardinality(lastNew) = 2
    /\ lastCallback = "ok"
    /\ known_files = presentAtStart \cup lastNew

\* C20 (as stated): once the stop signal is set the watcher lists the folder
\* no more and invokes the callback no more.
C20_NoListingAfterStop ==
    /\ listedAfterStop = 0
    /\ calledAfterStop = 0

\* C20 (amended): the stop signal is tested at the top of each iteration,
\* before the sleep: once it is set the watcher makes at most one further
\* listing and at most one further callback invocation, those of the
\* iteration whose sleep it was already in, and then exits.
C20_AtMostOnePollAfterStop ==
    /\ listedAfterStop <= 1
    /\ calledAfterStop <= listedAfterStop
    /\ (stopSet /\ w_pc = "sleep") => listedAfterStop = 0

C20_Witness ==
    /\ w_pc = "exited"
    /\ listedAfterStop = 1
    /\ calledAfterStop = 1
    /\ listings >= 3

\* C21 (as stated): the while loop of watch_folder is left only through the
\* stop test, with the stop signal set beforehand, and once the signal is set
\* at most one further poll is made.
C21_StopIsOnlyExit ==
    [][/\ (LoopRunning /\ ~LoopRunning') => (stopSet /\ w_pc' = "exited")
       /\ listedAfterStop' <= 1]_vars

\* the part of C21 that the loop delivers: under SpecWatchFair a stop signal
\* set while the loop runs is followed by the end of the loop
StopLeadsToReturn == (stopSet /\ LoopRunning) ~> ~LoopRunning

\* C22: a poll whose folder listing raised an error leaves the watcher in
\* its loop, at the stop test of the next iteration, with the known set as
\* it was and without a callback.
C22_ListingErrorKeepsLoop ==
    [][(w_pc = "sleep" /\ listings' = listings + 1 /\ lastList' = "error") =>
         /\ w_pc' = "check"
         /\ known_files' = known_files
         /\ callbacks' = callbacks]_vars

C22_Witness ==
    /\ lastList = "error"
    /\ listings = 2
    /\ w_pc = "sleep"
    /\ ~stopSet

\* C23: no step of a watch session removes an id from the known set, and
\* the ids handed to the callback are never ids that were already known, so
\* a known item that left the folder and came back is not reported again.
C23_KnownOnlyGrows ==
    [][/\ known_files \subseteq known_files'
       /\ callbacks' = callbacks + 1 => lastNew' \cap known_files = {}]_vars

\* file 1 was known from the start, left the folder and was appended again
\* behind file 2 before the last listing, which reported nothing but file 2
C23_Witness ==
    /\ presentAtStart = {1}
    /\ folder = <<2, 1>>
    /\ w_pc = "check"
    /\ listings = 3
    /\ lastList = "ok"
    /\ delivered = {2}
    /\ known_files = {1, 2}

\* =========================================================================
\* Page layout: CatalogAssembler._draw_single_image
\* (src/src/catalog/assembler.py). Lengths are exact fractions <<n, d>> with
\* d > 0, in lowest terms, so that equal lengths are equal values.
\* =========================================================================
MaxImg == 5
MaxRegion == 3
MaxOrigin == 1

RECURSIVE GCD(_, _)
GCD(a, b) == IF b = 0 THEN a ELSE GCD(b, a % b)

Abs(n) == IF n < 0 THEN 0 - n ELSE n

Frac(n, d) == LET g == GCD(Abs(n), d) IN <<n \div g, d \div g>>
FInt(n) == <<n, 1>>
\* sums and comparisons go over the least common denominator and products
\* cancel crosswise first, which keeps the intermediate integers small
FAdd(a, b) ==
    LET g == GCD(a[2], b[2]) IN
    Frac(a[1] * (b[2] \div g) + b[1] * (a[2] \div g), (a[2] \div g) * b[2])
FSub(a, b) == FAdd(a, <<0 - b[1], b[2]>>)
FMul(a, b) ==
    LET g == GCD(Abs(a[1]), b[2])
        h == GCD(Abs(b[1]), a[2])
    IN Frac((a[1] \div g) * (b[1] \div h), (a[2] \div h) * (b[2] \div g))
\* a / b for b > 0
FDiv(a, b) == FMul(a, <<b[2], b[1]>>)
FLt(a, b) ==
    LET g == GCD(a[2], b[2]) IN a[1] * (b[2] \div g) < b[1] * (a[2] \div g)
FLe(a, b) ==
    LET g == GCD(a[2], b[2]) IN a[1] * (b[2] \div g) <= b[1] * (a[2] \div g)

\* what image_path can name: nothing (None), a path with no file, a file
\* ImageReader cannot read, a readable image
FileKinds == {"none", "missing", "unreadable", "image"}

\* aspect = img_width / img_height
Aspect(size) == FDiv(FInt(size.w), FInt(size.h))

HeightBoundAlways(size, width, height) == TRUE
\* if width / height > aspect: the height is the binding dimension
HeightBound(size, width, height) == FLt(Aspect(size), FDiv(width, height))

\* the drawImage call of _draw_single_image for an image of the given size
\* in the region with origin (x, y) and the given width and height
DrawSingleImage(size, x, y, width, height) ==
    LET aspect == Aspect(size)
        hb == HeightBound(size, width, height)
        draw_height == IF hb THEN FMul(height, Frac(9, 10))
                       ELSE FDiv(FMul(width, Frac(8, 10)), aspect)
        draw_width == IF hb THEN FMul(FMul(height, Frac(9, 10)), aspect)
                      ELSE FMul(width, Frac(8, 10))
    IN [drawn |-> TRUE,
        bound |-> IF hb THEN "height" ELSE "width",
        x |-> FAdd(x, FDiv(FSub(width, draw_width), FInt(2))),
        y |-> FAdd(y, FDiv(FSub(height, draw_height), FInt(2))),
        width |-> draw_width,
        height |-> draw_height]

\* _draw_single_image as a whole: "raised" when os.path.exists gets None,
\* nothing drawn for a missing file and when the try block raises (a file
\* that cannot be read, a region of height 0), else the drawImage call
SingleImageOutcome(file, size, x, y, width, height) ==
    CASE file = "none" -> [pc |-> "raised", drawn |-> NoDraw]
      [] file = "missing" -> [pc |-> "returned", drawn |-> NoDraw]
      [] file = "unreadable" -> [pc |-> "returned", drawn |-> NoDraw]
      [] file = "image" /\ height[1] = 0 -> [pc |-> "returned", drawn |-> NoDraw]
      [] OTHER -> [pc |-> "returned",
                   drawn |-> DrawSingleImage(size, x, y, width, height)]

InitLayout ==
    /\ ServiceIdle
    /\ StartupIdle
    /\ ClientIdle
    /\ BatchIdle
    /\ WatchIdle
    /\ CatalogIdle
    /\ l_pc = "ready"
    /\ l_file \in FileKinds
    /\ l_img \in [w : 1..MaxImg, h : 1..MaxImg]
    /\ l_region \in [x : 0..MaxOrigin, y : 0..MaxOrigin,
                      width : 1..MaxRegion, height : 0..MaxRegion]
    /\ l_drawn = NoDraw

\* one call of _draw_single_image
DrawSingleImageCall ==
    /\ l_pc = "ready"
    /\ LET out == SingleImageOutcome(l_file, l_img, FInt(l_region.x),
                                     FInt(l_region.y), FInt(l_region.width),
                                     FInt(l_region.height)) IN
        /\ l_pc' = out.pc
        /\ l_drawn' = out.drawn
    /\ UNCHANGED <<l_file, l_img, l_region, catalogVars, clientVars, batchVars,
                   watchVars, startupVars, serviceVars>>

NextLayout == DrawSingleImageCall

SpecLayout == InitLayout /\ [][NextLayout]_vars

\* ---------------------------------------------------------- layout claims
\* C28: whatever the image size and the region, the image drawn by the
\* single-image layout is at most 90% of the region's height tall and at
\* most 80% of the region's width wide.
C28_WithinNinetyByEighty ==
    l_drawn.drawn =>
        /\ FLe(l_drawn.height, FMul(FInt(l_region.height), Frac(9, 10)))
        /\ FLe(l_drawn.width, FMul(FInt(l_region.width), Frac(8, 10)))

\* C29: the height is the binding dimension exactly when the region is
\* proportionally wider than the image; then the image is 90% of the
\* region's height tall and centered horizontally, otherwise it is 80% of
\* the region's width wide and centered vertically; the drawn width and
\* height are in the image's aspect ratio; a 2:1 image in a 1:1 region is
\* width-bound and vertically centered.
C29_AspectFit ==
    l_drawn.drawn =>
        LET W == FInt(l_region.width)
            H == FInt(l_region.height)
            wider == l_region.width * l_img.h > l_img.w * l_region.height
        IN /\ (l_drawn.bound = "height") <=> wider
           /\ wider =>
                /\ l_drawn.height = FMul(H, Frac(9, 10))
                /\ FAdd(FMul(FInt(2), l_drawn.x), l_drawn.width)
                     = FAdd(FMul(FInt(2), FInt(l_region.x)), W)
           /\ ~wider =>
                /\ l_drawn.width = FMul(W, Frac(8, 10))
                /\ FAdd(FMul(FInt(2), l_drawn.y), l_drawn.height)
                     = FAdd(FMul(FInt(2), FInt(l_region.y)), H)
           /\ l_drawn.width[1] * l_drawn.height[2] * l_img.h
                = l_drawn.height[1] * l_drawn.width[2] * l_img.w
           /\ (l_img.w = 2 * l_img.h /\ l_region.width = l_region.height)
                => l_drawn.bound = "width"

\* a 2:1 image drawn in a 1:1 region at the origin: 4/5 wide, 2/5 tall,
\* its lower edge 3/10 above the region's
C29_Witness ==
    /\ l_pc = "returned"
    /\ l_img = [w |-> 2, h |-> 1]
    /\ l_region = [x |-> 0, y |-> 0, width |-> 1, height |-> 1]
    /\ l_drawn = [drawn |-> TRUE, bound |-> "width", x |-> <<1, 10>>,
                  y |-> <<3, 10>>, width |-> <<4, 5>>, height |-> <<2, 5>>]

\* =========================================================================
\* Catalog composition: CatalogAssembler.create_catalog and the pages it
\* draws (src/src/catalog/assembler.py, src/src/catalog/templates.py)
\* =========================================================================
MaxEntries == 2
MaxCatalogCalls == 2

\* ModernMinimalistStyle and SpacingConfig defaults, in points
PageWidth == Frac(59528, 100)
PageHeight == Frac(84189, 100)
PageMargin == FInt(50)
HeaderHeight == FInt(40)
FooterHeight == FInt(60)
ImageGap == FInt(15)

\* _create_product_page: the content region between header and footer
ContentRegion ==
    LET content_top == FSub(FSub(PageHeight, PageMargin), HeaderHeight)
        content_bottom == FAdd(PageMargin, FooterHeight)
    IN [x |-> PageMargin,
        y |-> content_bottom,
        width |-> FSub(PageWidth, FMul(FInt(2), PageMargin)),
        height |-> FSub(content_top, content_bottom)]

\* the files the entries below refer to
Disk(path) ==
    CASE path = <<"tall">> -> [kind |-> "image", size |-> [w |-> 3, h |-> 4]]
      [] path = <<"wide">> -> [kind |-> "image", size |-> [w |-> 2, h |-> 1]]
      [] path = <<"junk">> -> [kind |-> "unreadable", size |-> [w |-> 1, h |-> 1]]
      [] OTHER -> [kind |-> "missing", size |-> [w |-> 1, h |-> 1]]

\* what a path argument names; None names nothing
FileKind(path) == IF path = NoPath THEN "none" ELSE Disk(path).kind

\* os.path.exists(path) for a path that is not None
Exists(path) == Disk(path).kind # "missing"

\* a dict with the given keys
Entry(full_body, output_path, closeup, product_name, product_code) ==
    [k \in { "full_body" : x \in {full_body} \ {NoPath} }
          \cup { "output_path" : x \in {output_path} \ {NoPath} }
          \cup { "closeup" : x \in {closeup} \ {NoPath} }
          \cup { "product_name" : x \in {product_name} \ {NoPath} }
          \cup { "product_code" : x \in {product_code} \ {NoPath} } |->
        CASE k = "full_body" -> full_body
          [] k = "output_path" -> output_path
          [] k = "closeup" -> closeup
          [] k = "product_name" -> product_name
          [] k = "product_code" -> product_code]

\* the image dicts create_catalog is called with
EntryPool ==
    { Entry(<<"tall">>, NoPath, <<"wide">>, <<"Shirt">>, <<"A1">>),
      Entry(<<"wide">>, NoPath, NoPath, NoPath, NoPath),
      Entry(NoPath, <<"tall">>, NoPath, NoPath, NoPath),
      Entry(<<"gone">>, NoPath, NoPath, <<"Coat">>, NoPath),
      Entry(NoPath, NoPath, NoPath, <<"Scarf">>, NoPath),
      Entry(<<"tall">>, NoPath, <<"gone">>, NoPath, NoPath),
      Entry(<<"junk">>, NoPath, <<"wide">>, NoPath, NoPath) }

RECURSIVE SeqsUpTo(_, _)
SeqsUpTo(S, n) ==
    IF n = 0 THEN { <<>> }
    ELSE LET shorter == SeqsUpTo(S, n - 1) IN
         shorter \cup { Append(q, e) : q \in shorter, e \in S }

\* product_name=image_set.get('product_name', f"Style #{i+1}")
ProductName(image, i) == Get(image, "product_name", <<"Style #", i>>)

\* _draw_split_layout: the regions of the two images
SplitRegions(x, y, width, height) ==
    LET left_width == FMul(width, Frac(58, 100))
        right_width == FMul(width, Frac(38, 100))
    IN << [x |-> x, y |-> y, width |-> left_width, height |-> height],
          [x |-> FAdd(FAdd(x, left_width), ImageGap),
           y |-> FAdd(y, FMul(height, Frac(2, 10))),
           width |-> right_width,
           height |-> FMul(height, Frac(6, 10))] >>

UsesSplitLayoutAnyPath(closeup) == closeup # NoPath
\* if closeup and os.path.exists(closeup): split layout, else single image
UsesSplitLayout(closeup) == closeup # NoPath /\ Exists(closeup)

\* _draw_single_image for a path in a region
DrawIn(path, r) ==
    SingleImageOutcome(FileKind(path), Disk(path).size, r.x, r.y, r.width,
                       r.height)

\* _create_product_page: the page drawn for the arguments create_catalog
\* passes, or "raised" when a _draw_single_image call raises
CreateProductPage(args) ==
    LET c == ContentRegion
        split == UsesSplitLayout(args.secondary)
        regions == IF split THEN SplitRegions(c.x, c.y, c.width, c.height)
                   ELSE << c >>
        first == DrawIn(args.primary, regions[1])
        second == DrawIn(args.secondary, regions[2])
        raises == first.pc = "raised" \/ (split /\ second.pc = "raised")
    IN [pc |-> IF raises THEN "raised" ELSE "returned",
        page |-> [kind |-> "product",
                  number |-> args.number,
                  title |-> args.title,
                  code |-> args.code,
                  primary |-> args.primary,
                  secondary |-> args.secondary,
                  layout |-> IF split THEN "split" ELSE "single",
                  regions |-> regions,
                  drawn |-> IF split THEN << first.drawn, second.drawn >>
                            ELSE << first.drawn >>]]

\* create_catalog, lines 110-116: the arguments of _create_product_page
ProductPageArgs(image, i) ==
    [primary |-> ProductPage(image, i).primary,
     secondary |-> ProductPage(image, i).secondary,
     number |-> ProductPage(image, i).number,
     title |-> ProductName(image, i),
     code |-> Get(image, "product_code", NoPath)]

CoverPage == [kind |-> "cover"]
BackCover == [kind |-> "back_cover"]

OpeningPages(cover) == IF cover THEN << CoverPage >> ELSE <<>>

ClosingPagesAlways(cover) == << BackCover >>
\* if include_cover: self._create_back_cover()
ClosingPages(cover) == IF cover THEN << BackCover >> ELSE <<>>

NewCanvasReused(old) == old
\* self.canvas = canvas.Canvas(...): every call draws on a canvas of its own
NewCanvas(old) == <<>>

InitCatalog ==
    /\ ServiceIdle
    /\ StartupIdle
    /\ ClientIdle
    /\ BatchIdle
    /\ WatchIdle
    /\ LayoutIdle
    /\ catalogImages \in SeqsUpTo(EntryPool, MaxEntries)
    /\ includeCover \in BOOLEAN
    /\ c_pc = "ready"
    /\ c_idx = 0
    /\ canvasOpen = FALSE
    /\ canvasPages = <<>>
    /\ document = NoDocument
    /\ saves = 0
    /\ current_page = 0
    /\ calls = 0
    /\ firstDocument = NoDocument

\* create_catalog up to the loop: output directory, canvas, cover page
CatalogBegin ==
    /\ c_pc = "ready"
    /\ calls' = calls + 1
    /\ canvasOpen' = TRUE
    /\ canvasPages' = NewCanvas(canvasPages) \o OpeningPages(includeCover)
    /\ current_page' = current_page + Len(OpeningPages(includeCover))
    /\ c_idx' = 1
    /\ c_pc' = "pages"
    /\ UNCHANGED <<catalogImages, includeCover, document, saves, firstDocument,
                   layoutVars, clientVars, batchVars, watchVars, startupVars,
                   serviceVars>>

\* one iteration of the for loop: _create_product_page for entry c_idx
CatalogProductPage ==
    /\ c_pc = "pages"
    /\ c_idx <= Len(catalogImages)
    /\ LET out == CreateProductPage(ProductPageArgs(catalogImages[c_idx], c_idx)) IN
        IF out.pc = "raised"
        THEN /\ c_pc' = "raised"
             /\ UNCHANGED <<canvasPages, current_page, c_idx>>
        ELSE /\ canvasPages' = Append(canvasPages, out.page)
             /\ current_page' = current_page + 1
             /\ c_idx' = c_idx + 1
             /\ UNCHANGED c_pc
    /\ UNCHANGED <<catalogImages, includeCover, canvasOpen, document, saves,
                   calls, firstDocument, layoutVars, clientVars, batchVars,
                   watchVars, startupVars, serviceVars>>

\* create_catalog after the loop: back cover, canvas.save(), return; the
\* save writes the file and can fail with an OSError
CatalogFinish ==
    /\ c_pc = "pages"
    /\ c_idx > Len(catalogImages)
    /\ canvasPages' = canvasPages \o ClosingPages(includeCover)
    /\ \E save_ok \in BOOLEAN :
        IF save_ok
        THEN /\ document' = canvasPages'
             /\ saves' = saves + 1
             /\ firstDocument' = IF calls = 1 THEN canvasPages' ELSE firstDocument
             /\ c_pc' = "returned"
        ELSE /\ c_pc' = "save_failed"
             /\ UNCHANGED <<document, saves, firstDocument>>
    /\ UNCHANGED <<catalogImages, includeCover, c_idx, canvasOpen, current_page,
                   calls, layoutVars, clientVars, batchVars, watchVars, startupVars,
                   serviceVars>>

\* create_catalog is called again on the same assembler with the same
\* arguments
CatalogCallAgain ==
    /\ c_pc \in {"returned", "raised", "save_failed"}
    /\ calls < MaxCatalogCalls
    /\ c_pc' = "ready"
    /\ c_idx' = 0
    /\ canvasOpen' = FALSE
    /\ UNCHANGED <<catalogImages, includeCover, canvasPages, document, saves,
                   current_page, calls, firstDocument, layoutVars, clientVars,
                   batchVars, watchVars, startupVars, serviceVars>>

NextCatalog ==
    \/ CatalogBegin
    \/ CatalogProductPage
    \/ CatalogFinish
    \/ CatalogCallAgain

SpecCatalog == InitCatalog /\ [][NextCatalog]_vars

\* --------------------------------------------------------- catalog claims
\* what a page of the document is and which entry it was composed from
Outline(page) ==
    IF page.kind = "product"
    THEN [kind |-> "product", primary |-> page.primary,
          secondary |-> page.secondary, number |-> page.number]
    ELSE page

\* the entry's primary image cannot be drawn because there is no file
PrimaryMissing(image) == FileKind(PrimaryOf(image)) \in {"none", "missing"}

\* C24: the document written by a create_catalog call that returned is the
\* cover (when included), then one product page per entry in input order,
\* numbered from 1, then the back cover (when included): N + 2 pages with
\* covers and N without.
C24_PagesInFixedOrder ==
    c_pc = "returned" =>
        /\ [p \in 1..Len(document) |-> Outline(document[p])]
             = CatalogPages(catalogImages, includeCover)
        /\ Len(document) = Len(catalogImages) + (IF includeCover THEN 2 ELSE 0)

C24_Witness ==
    /\ c_pc = "returned"
    /\ includeCover
    /\ Len(catalogImages) = 2
    /\ catalogImages[1] # catalogImages[2]
    /\ Len(document) = 4
    /\ document[1] = CoverPage
    /\ document[2].number = 1 /\ document[2].primary = PrimaryOf(catalogImages[1])
    /\ document[3].number = 2 /\ document[3].primary = PrimaryOf(catalogImages[2])
    /\ document[4] = BackCover

\* C25: an entry whose primary image is missing (no file at the path, or no
\* primary path in the entry) never makes create_catalog raise, and in the
\* document of a call that returned its page carries the title and no
\* primary image.
C25_MissingPrimaryNeverAborts ==
    /\ c_pc # "raised"
    /\ c_pc = "returned" =>
        \A i \in 1..Len(catalogImages) :
            PrimaryMissing(catalogImages[i]) =>
                \E p \in 1..Len(document) :
                    /\ document[p].kind = "product"
                    /\ document[p].number = i
                    /\ document[p].title = ProductName(catalogImages[i], i)
                    /\ document[p].drawn[1] = NoDraw

\* C26: a create_catalog call with an empty entry list creates no canvas,
\* draws no page, writes no document and does not return normally.
C26_EmptyListRejected ==
    catalogImages = <<>> =>
        /\ ~canvasOpen
        /\ canvasPages = <<>>
        /\ saves = 0
        /\ c_pc \notin {"pages", "returned"}

\* C27: when create_catalog has returned for the first call and for a
\* later call with the same arguments on the same assembler, the later
\* document equals the first: same pages, same order, same layout.
C27_SecondCallSameDocument ==
    (calls >= 2 /\ c_pc = "returned" /\ firstDocument # NoDocument)
        => document = firstDocument

\* the second call wrote the same four pages as the first although the
\* first left current_page at 3
C27_Witness ==
    /\ calls = 2
    /\ c_pc = "returned"
    /\ saves = 2
    /\ current_page = 6
    /\ Len(firstDocument) = 4
    /\ document = firstDocument
    /\ document[2].layout = "split"

\* =========================================================================
\* Command start-up: the batch, watch and validate commands
\* (src/pipeline.py) and Config.validate (src/src/config.py). A setting of
\* s_cfg is TRUE when the environment provides a non-empty value for it.
\* =========================================================================
\* Config.validate: raises ValueError when a required setting is empty
\* GENERATORS: the categories a generator exists for
Categories == {"teen_boy", "infant"}

\* the garment files an item of the batch may be
GarmentNames == {"a.png", "e.png"}

\* json.load of the workflow file: the ComfyUI graph, without a "config" key
WorkflowFile == [nodes |-> "comfyui_graph"]

\* the generator's get_model_prompt, get_negative_prompt, get_vto_config and
\* get_workflow_overrides, each particular to the category
GeneratorConfig(category, garment_path) ==
    [positive_prompt |-> <<"prompt", category>>,
     negative_prompt |-> <<"negative", category>>,
     garment_path    |-> garment_path,
     vto_config      |-> <<"vto", category>>,
     overrides       |-> <<"overrides", category>>]

\* _configure_workflow: workflow["config"] = {...}
ConfigureWorkflow(workflow, category, garment_path) ==
    [k \in DOMAIN workflow \cup {"config"} |->
        IF k = "config" THEN GeneratorConfig(category, garment_path)
        ELSE workflow[k]]

\* prepared_path = output_dir / "temp" / name
PreparedPath(name) == <<"temp", name>>

\* encode_image: the base64 text of the file at the path
EncodeImage(path) == <<"b64">> \o path

\* submit_job's payload["input"], given the workflow and the images
JobInput(workflow, images) == [workflow |-> workflow, images |-> images]

\* submit_workflow_with_images: the workflow is loaded from workflow_path,
\* the image is encoded, and both go to submit_job
SubmittedInput(workflow_path_content, image_path) ==
    JobInput(workflow_path_content,
             [k \in {"garment"} |-> EncodeImage(image_path)])

ConfigValid(cfg) == \A k \in RequiredSettings : cfg[k]

InitStartup ==
    /\ ServiceIdle
    /\ ClientIdle
    /\ BatchIdle
    /\ WatchIdle
    /\ AssemblerIdle
    /\ s_cfg \in [RequiredSettings -> BOOLEAN]
    /\ s_cmd \in {"batch", "watch", "validate"}
    /\ s_pc = "invoked"
    /\ validateCalls = 0
    /\ preparedImages = 0
    /\ submittedJobs = 0
    /\ folderListings = 0
    /\ s_category \in Categories
    /\ s_prepared = NoPath
    /\ s_workflow = NoWorkflow
    /\ s_payload = NoPayload

\* FashionCatalogPipeline(): Config.from_env() with "" for what is missing,
\* then the clients are built from it; validate() is not called
ConstructPipeline ==
    /\ s_cmd \in {"batch", "watch"}
    /\ s_pc = "invoked"
    /\ s_pc' = "constructed"
    /\ UNCHANGED <<s_cfg, s_cmd, validateCalls, preparedImages, submittedJobs,
                   folderListings, s_category, s_prepared, s_workflow,
                   s_payload, clientVars, batchVars, watchVars,
                   assemblerVars, serviceVars>>

\* the validate command: Config.from_env().validate()
ValidateCommand ==
    /\ s_cmd = "validate"
    /\ s_pc = "invoked"
    /\ validateCalls' = validateCalls + 1
    /\ s_pc' = IF ConfigValid(s_cfg) THEN "valid" ELSE "exit_1"
    /\ UNCHANGED <<s_cfg, s_cmd, preparedImages, submittedJobs, folderListings,
                   s_category, s_prepared, s_workflow, s_payload,
                   clientVars, batchVars, watchVars, assemblerVars,
                   serviceVars>>

\* batch: run_batch reaches process_single_garment for a file of the input
\* directory, whose first step is prepare_garment_image
BatchPrepareImage ==
    /\ s_cmd = "batch"
    /\ s_pc = "constructed"
    /\ \E ok \in BOOLEAN, name \in GarmentNames :
        IF ok
        THEN /\ preparedImages' = preparedImages + 1
             /\ s_prepared' = PreparedPath(name)
             /\ s_pc' = "prepared"
        ELSE /\ s_pc' = "item_failed"
             /\ UNCHANGED <<preparedImages, s_prepared>>
    /\ UNCHANGED <<s_cfg, s_cmd, validateCalls, submittedJobs, folderListings,
                   s_category, s_workflow, s_payload,
                   clientVars, batchVars, watchVars, assemblerVars,
                   serviceVars>>

\* batch: process_single_garment loads the workflow file and passes it
\* through _configure_workflow
BatchConfigureWorkflow ==
    /\ s_cmd = "batch"
    /\ s_pc = "prepared"
    /\ s_workflow' = ConfigureWorkflow(WorkflowFile, s_category, s_prepared)
    /\ s_pc' = "configured"
    /\ UNCHANGED <<s_cfg, s_cmd, validateCalls, preparedImages, submittedJobs,
                   folderListings, s_category, s_prepared, s_payload,
                   clientVars, batchVars, watchVars, assemblerVars,
                   serviceVars>>

\* batch: submit_workflow_with_images(workflow_path, prepared_path) posts the
\* job with the configured key and endpoint, whatever they are
BatchSubmitJob ==
    /\ s_cmd = "batch"
    /\ s_pc = "configured"
    /\ submittedJobs' = submittedJobs + 1
    /\ s_payload' = SubmittedInput(WorkflowFile, s_prepared)
    /\ s_pc' = "submitted"
    /\ UNCHANGED <<s_cfg, s_cmd, validateCalls, preparedImages, folderListings,
                   s_category, s_prepared, s_workflow,
                   clientVars, batchVars, watchVars, assemblerVars,
                   serviceVars>>

\* watch: watch_drive calls init_google_drive, which authenticates with the
\* credentials file
WatchAuthenticate ==
    /\ s_cmd = "watch"
    /\ s_pc = "constructed"
    /\ \E ok \in BOOLEAN :
        s_pc' = IF ok THEN "authenticated" ELSE "auth_failed"
    /\ UNCHANGED <<s_cfg, s_cmd, validateCalls, preparedImages, submittedJobs,
                   folderListings, s_category, s_prepared, s_workflow,
                   s_payload, clientVars, batchVars, watchVars,
                   assemblerVars, serviceVars>>

\* watch: watch_folder's initial scan lists the configured input folder id
WatchListFolder ==
    /\ s_cmd = "watch"
    /\ s_pc = "authenticated"
    /\ folderListings' = folderListings + 1
    /\ s_pc' = "watching"
    /\ UNCHANGED <<s_cfg, s_cmd, validateCalls, preparedImages, submittedJobs,
                   s_category, s_prepared, s_workflow, s_payload,
                   clientVars, batchVars, watchVars, assemblerVars,
                   serviceVars>>

NextStartup ==
    \/ ConstructPipeline
    \/ ValidateCommand
    \/ BatchPrepareImage
    \/ BatchConfigureWorkflow
    \/ BatchSubmitJob
    \/ WatchAuthenticate
    \/ WatchListFolder

SpecStartup == InitStartup /\ [][NextStartup]_vars

\* --------------------------------------------------------- start-up claim
\* C30: a batch command started without the API key or without the endpoint
\* id prepares no image and submits no job, and a watch command started
\* with any required setting missing lists no folder.
C30_InvalidConfigDoesNoWork ==
    /\ (s_cmd = "batch" /\ ~(s_cfg["api_key"] /\ s_cfg["endpoint_id"]))
          => (preparedImages = 0 /\ submittedJobs = 0)
    /\ (s_cmd = "watch" /\ ~ConfigValid(s_cfg)) => folderListings = 0

\* =========================================================================
\* Further claims on the RunPod client (specification Spec)
\* =========================================================================
\* the outcomes that have been returned: submit_job's and get_job_status's
ReturnedOutcomes ==
    (IF pc = "returned" THEN {result} ELSE {})
    \cup (IF getOutcome = "returned" THEN {getResult} ELSE {})

\* C37: an outcome with success set was returned for a job the endpoint
\* accepted; an outcome built from a status response has success set exactly
\* when the reported status is COMPLETED; no outcome with status FAILED,
\* CANCELLED, timeout or error has success set.
C37_SuccessOnlyWhenCompleted ==
    /\ \A r \in ReturnedOutcomes :
        /\ r.success => remote.status # "none"
        /\ r.status \in {"FAILED", "CANCELLED", "timeout", "error"} => ~r.success
    /\ (pc = "returned" /\ lastEvent = "query")
          => (result.success <=> lastObserved = "COMPLETED")
    /\ (getOutcome = "returned" /\ getResult.status # "error")
          => (getResult.success <=> getResult.status = "COMPLETED")

\* submit_job gave up with a timeout and a later get_job_status saw the
\* job completed
C37_Witness ==
    /\ pc = "returned"
    /\ result.status = "timeout"
    /\ ~result.success
    /\ getOutcome = "returned"
    /\ getResult.status = "COMPLETED"
    /\ getResult.success

\* =========================================================================
\* Further claims on run_batch (specification SpecBatch)
\* =========================================================================
\* the text _poll_for_result puts into the error of a timed-out job
TimedOutMarker == TimeoutResult(None).error

\* C32: the result of a file whose job timed out is a failure whose error
\* is the timed-out text, the results of files whose job was rejected, failed
\* remotely or was cancelled carry a different error, and the report returned
\* by run_batch holds these results unchanged.
C32_TimeoutMarkerKept ==
    /\ Len(jobStatuses) = Len(results)
    /\ \A i \in 1..Len(results) :
        /\ jobStatuses[i] = "timeout"
             => (~results[i]["success"] /\ results[i]["error"] = TimedOutMarker)
        /\ jobStatuses[i] \in {"error", "FAILED", "CANCELLED"}
             => (~results[i]["success"] /\ results[i]["error"] # TimedOutMarker)
    /\ BatchReturned => report.results = results

\* a returned batch of two files: one job timed out, one failed remotely
C32_Witness ==
    /\ BatchReturned
    /\ Len(results) = 2
    /\ jobStatuses = <<"timeout", "FAILED">>
    /\ report.results[1]["error"] = TimedOutMarker
    /\ report.results[2]["error"] = "remote_error"

\* the files of a directory that have a supported extension in any mix of
\* upper and lower case, in enumeration order
SupportedFiles(dir) == SelectSeq(dir, LAMBDA f : Lower(f.ext) \in SupportedSet)

\* C33: after discovery image_files holds every file of the input directory
\* whose extension is a supported one in any mix of upper and lower case,
\* and holds each such file once.
C33_DiscoveryIgnoresCase ==
    b_pc \in {"loop", "done", "raised"} =>
        /\ Range(image_files) = Range(SupportedFiles(inputDir))
        /\ Len(image_files) = Len(SupportedFiles(inputDir))

\* C34: in the document run_batch had composed, the page of every
\* successful result that carries a full-body path has that path as its
\* primary image and the result's close-up path as its secondary image.
C34_PageUsesFullBodyAndCloseup ==
    (BatchReturned /\ pages # <<>>) =>
        \A k \in 1..Len(SuccessfulResults(results)) :
            LET r == SuccessfulResults(results)[k] IN
            "full_body_path" \in DOMAIN r =>
                \E p \in 1..Len(pages) :
                    /\ pages[p].kind = "product"
                    /\ pages[p].number = k
                    /\ pages[p].primary = r["full_body_path"]
                    /\ pages[p].secondary = r["closeup_path"]

\* =========================================================================
\* Further claims on create_catalog (specification SpecCatalog)
\* =========================================================================
\* region r lies inside region c
Inside(r, c) ==
    /\ FLe(c.x, r.x)
    /\ FLe(c.y, r.y)
    /\ FLe(FAdd(r.x, r.width), FAdd(c.x, c.width))
    /\ FLe(FAdd(r.y, r.height), FAdd(c.y, c.height))

C38_KnownOnlyAfterCallbackReturned ==
    [][(w_pc = "sleep" /\ listings' = listings + 1) =>
         /\ known_files' # known_files =>
              /\ callbacks' = callbacks + 1
              /\ lastCallback' = "ok"
              /\ known_files' = known_files \cup lastNew'
         /\ (callbacks' = callbacks + 1 /\ lastCallback' = "raised") =>
              /\ known_files' = known_files
              /\ w_pc' = "check"
         /\ (lastList' = "ok" /\ lastCallback = "raised") =>
              LET again == lastNew \cap Range(ListImageFiles(folder)) IN
              again # {} => (callbacks' = callbacks + 1 /\ again \subseteq lastNew')
      ]_vars

\* one id, absent at the start, was passed to the callback twice: the first
\* callback raised, the second returned and the id became known
C38_Witness ==
    /\ presentAtStart = {}
    /\ callbacks = 2
    /\ Cardinality(delivered) = 1
    /\ lastCallback = "ok"
    /\ lastNew = delivered
    /\ known_files = delivered
\* =========================================================================
\* Further claim on process_single_garment (specification SpecStartup)
\* =========================================================================
\* C35: the job submitted for an item carries the generator configuration
\* built for that item (prompts, try-on config, overrides) in its workflow,
\* and the prepared image as the 'garment' attachment.
C35_JobCarriesGeneratorConfig ==
    s_pc = "submitted" =>
        /\ "config" \in DOMAIN s_payload.workflow
        /\ s_payload.workflow = s_workflow
        /\ s_payload.images = [k \in {"garment"} |-> EncodeImage(s_prepared)]

\* =========================================================================
\* watch_drive's callback (specification SpecWatchDrive)
\* =========================================================================
\* callbacks one session is followed for
MaxCallbacks == 2

\* the image files that may be put into the Drive input folder
DriveFilePool ==
    { [stem |-> "a", ext |-> ".png"], [stem |-> "b", ext |-> ".JPG"],
      [stem |-> "e", ext |-> ".png"] }

\* download_batch: each file is written to destination_dir / file.name; a
\* name already there is overwritten in place
DownloadBatch(dir, files) ==
    dir \o SelectSeq(files, LAMBDA f : f \notin Range(dir))

InitWatchDrive ==
    /\ ClientIdle
    /\ BatchIdle
    /\ WatchIdle
    /\ AssemblerIdle
    /\ StartupIdle
    /\ ApiIdle
    /\ d_pc = "start"
    /\ d_folder \in DistinctSeqs(DriveFilePool, 1)
    /\ d_known = {}
    /\ d_downloads = <<>>
    /\ d_detected = <<>>
    /\ d_submitted = <<>>

\* watch_folder's initial scan: every listed file becomes known
WatchDriveStart ==
    /\ d_pc = "start"
    /\ d_known' = Range(d_folder)
    /\ d_pc' = "watching"
    /\ UNCHANGED <<d_folder, d_downloads, d_detected, d_submitted, apiVars,
                   clientVars, batchVars, watchVars, assemblerVars,
                   startupVars>>

\* someone puts a photograph into the input folder
DriveUpload ==
    /\ \E f \in DriveFilePool \ Range(d_folder) :
        d_folder' = Append(d_folder, f)
    /\ UNCHANGED <<d_pc, d_known, d_downloads, d_detected, d_submitted,
                   apiVars, clientVars, batchVars, watchVars, assemblerVars,
                   startupVars>>

\* one poll of watch_folder that finds new files and calls on_new_files:
\* download_batch into temp/downloads, run_batch over that directory, upload
\* of the results; known_files grows only if the callback returns
OnNewFiles ==
    /\ d_pc = "watching"
    /\ Len(d_detected) < MaxCallbacks
    /\ LET new_files == SelectSeq(d_folder, LAMBDA f : f \notin d_known)
       IN /\ new_files # <<>>
          /\ \E n \in 0..Len(new_files) :
               LET downloaded == DownloadBatch(d_downloads, SubSeq(new_files, 1, n))
               IN /\ d_downloads' = downloaded
                  /\ IF n < Len(new_files)
                     THEN \* download_file raised: the callback ends there
                          UNCHANGED <<d_known, d_detected, d_submitted>>
                     ELSE \E submitted \in SUBSET Range(Discover(downloaded)),
                             returned \in BOOLEAN :
                            /\ d_detected' = Append(d_detected, Range(new_files))
                            /\ d_submitted' = Append(d_submitted, submitted)
                            /\ d_known' = IF returned
                                          THEN d_known \cup Range(new_files)
                                          ELSE d_known
    /\ UNCHANGED <<d_pc, d_folder, apiVars, clientVars, batchVars, watchVars,
                   assemblerVars, startupVars>>

NextWatchDrive ==
    \/ WatchDriveStart
    \/ DriveUpload
    \/ OnNewFiles

SpecWatchDrive == InitWatchDrive /\ [][NextWatchDrive]_vars

\* C39: each callback's batch submits only files newly detected in that
\* poll, and no file is submitted by two batches of the session.
C39_BatchCoversOnlyNewFiles ==
    /\ \A i \in 1..Len(d_submitted) : d_submitted[i] \subseteq d_detected[i]
    /\ \A i, j \in 1..Len(d_submitted) :
        i < j => d_submitted[i] \cap d_submitted[j] = {}
\* =========================================================================
\* The job status file of the HTTP service (specification SpecApi)
\* =========================================================================
\* images of one /generate request
MaxApiImages == 1

\* pieces in which the text of a document reaches the file
NumChunks == 2

\* output_path of /catalog
PdfPath == "catalog.pdf"

\* json.dumps(metadata, indent=2): the text of a document, as the pieces
\* that are written one after the other
Render(doc) == [k \in 1..NumChunks |-> [part |-> k, doc |-> doc]]

\* json.loads(text): the document of a complete text; any other text makes
\* json.loads raise
Parse(text) ==
    IF Len(text) = NumChunks /\ text = Render(text[1].doc)
    THEN [ok |-> TRUE, doc |-> text[1].doc]
    ELSE [ok |-> FALSE, doc |-> RequestDoc]

\* metadata_path.write_text(text), up to the point where the file is open:
\* open(mode="w") creates or truncates the file, the text follows
BeginWrite(owner, doc) ==
    /\ a_exists' = TRUE
    /\ a_file' = <<>>
    /\ a_writer' = owner
    /\ a_wdoc' = Render(doc)

InitApi ==
    /\ ClientIdle
    /\ BatchIdle
    /\ WatchIdle
    /\ AssemblerIdle
    /\ StartupIdle
    /\ DriveIdle
    /\ a_total \in 0..MaxApiImages
    /\ a_meta = RequestDoc
    /\ g_pc = "idle"
    /\ g_i = 0
    /\ a_exists \in BOOLEAN
    /\ a_file = IF a_exists THEN Render(RequestDoc) ELSE <<>>
    /\ a_writer = "none"
    /\ a_wdoc = <<>>
    /\ a_written = IF a_exists THEN {Render(RequestDoc)} ELSE {}
    /\ a_reads = {}
    /\ c_state = "idle"
    /\ a_pdf = FALSE
    /\ a_download = "none"

\* POST /generate: the background task is scheduled
Generate ==
    /\ g_pc = "idle"
    /\ g_pc' = "start"
    /\ UNCHANGED <<a_total, a_meta, g_i, a_exists, a_file, a_writer, a_wdoc,
                   a_written, a_reads, c_state, a_pdf, a_download, driveVars,
                   clientVars, batchVars, watchVars, assemblerVars,
                   startupVars>>

\* run_generation: status "generating" is set and the document written
GenStart ==
    /\ g_pc = "start"
    /\ a_writer = "none"
    /\ a_meta' = [a_meta EXCEPT !.status = "generating"]
    /\ BeginWrite("generation", a_meta')
    /\ g_i' = 0
    /\ g_pc' = "loop"
    /\ UNCHANGED <<a_total, a_written, a_reads, c_state, a_pdf, a_download,
                   driveVars, clientVars, batchVars, watchVars, assemblerVars,
                   startupVars>>

\* run_generation: the loop body up to the await: currentItem and progress
\* are set and the document written
GenItem ==
    /\ g_pc = "loop"
    /\ a_writer = "none"
    /\ g_i < a_total
    /\ a_meta' = [a_meta EXCEPT !.currentItem = g_i + 1,
                                !.progress = (g_i * 100) \div a_total]
    /\ BeginWrite("generation", a_meta')
    /\ g_pc' = "await"
    /\ UNCHANGED <<a_total, g_i, a_written, a_reads, c_state, a_pdf,
                   a_download, driveVars, clientVars, batchVars, watchVars,
                   assemblerVars, startupVars>>

\* run_generation: await generator.process(...) ends; if it raised, the
\* except branch sets status "error" and writes the document
GenProcessDone ==
    /\ g_pc = "await"
    /\ a_writer = "none"
    /\ \E raised \in BOOLEAN :
        IF raised
        THEN /\ a_meta' = [a_meta EXCEPT !.status = "error"]
             /\ BeginWrite("generation", a_meta')
             /\ g_pc' = "done"
             /\ UNCHANGED g_i
        ELSE /\ g_i' = g_i + 1
             /\ g_pc' = "loop"
             /\ UNCHANGED <<a_meta, a_exists, a_file, a_writer, a_wdoc>>
    /\ UNCHANGED <<a_total, a_written, a_reads, c_state, a_pdf, a_download,
                   driveVars, clientVars, batchVars, watchVars, assemblerVars,
                   startupVars>>

\* run_generation: after the loop status "complete" and progress 100 are set
\* and the document written
GenComplete ==
    /\ g_pc = "loop"
    /\ a_writer = "none"
    /\ g_i = a_total
    /\ a_meta' = [a_meta EXCEPT !.status = "complete", !.progress = 100]
    /\ BeginWrite("generation", a_meta')
    /\ g_pc' = "done"
    /\ UNCHANGED <<a_total, g_i, a_written, a_reads, c_state, a_pdf,
                   a_download, driveVars, clientVars, batchVars, watchVars,
                   assemblerVars, startupVars>>

\* write_text goes on: the next piece of the text reaches the file; with the
\* last piece the file is closed and the writer continues
WriteChunk ==
    /\ a_writer # "none"
    /\ a_file' = Append(a_file, a_wdoc[Len(a_file) + 1])
    /\ IF Len(a_file') = Len(a_wdoc)
       THEN /\ a_writer' = "none"
            /\ a_written' = a_written \cup {a_wdoc}
            /\ c_state' = IF a_writer = "catalog" THEN "done" ELSE c_state
       ELSE UNCHANGED <<a_writer, a_written, c_state>>
    /\ UNCHANGED <<a_total, a_meta, g_pc, g_i, a_exists, a_wdoc, a_reads,
                   a_pdf, a_download, driveVars, clientVars, batchVars,
                   watchVars, assemblerVars, startupVars>>

\* POST /catalog: 404 without the file; else the document is read, the PDF
\* created, pdfPath set in the document read, and the document written
CatalogRequest ==
    /\ c_state = "idle"
    /\ a_writer = "none"
    /\ IF ~a_exists
       THEN /\ c_state' = "failed"
            /\ UNCHANGED <<a_exists, a_file, a_writer, a_wdoc, a_pdf>>
       ELSE \E created \in BOOLEAN :
            IF created
            THEN /\ a_pdf' = TRUE
                 /\ BeginWrite("catalog",
                               [Parse(a_file).doc EXCEPT !.pdfPath = PdfPath])
                 /\ c_state' = "writing"
            ELSE /\ c_state' = "failed"
                 /\ UNCHANGED <<a_exists, a_file, a_writer, a_wdoc, a_pdf>>
    /\ UNCHANGED <<a_total, a_meta, g_pc, g_i, a_written, a_reads, a_download,
                   driveVars, clientVars, batchVars, watchVars, assemblerVars,
                   startupVars>>

\* GET /download after /catalog has answered with success
DownloadRequest ==
    /\ c_state = "done"
    /\ a_writer = "none"
    /\ a_download' = IF /\ a_exists
                        /\ Parse(a_file).ok
                        /\ Parse(a_file).doc.pdfPath # "None"
                        /\ a_pdf
                     THEN "file"
                     ELSE "not_found"
    /\ UNCHANGED <<a_total, a_meta, g_pc, g_i, a_exists, a_file, a_writer,
                   a_wdoc, a_written, a_reads, c_state, a_pdf, driveVars,
                   clientVars, batchVars, watchVars, assemblerVars,
                   startupVars>>

\* the status-polling frontend, another process, reads the file
ExternalRead ==
    /\ a_exists
    /\ a_reads' = a_reads \cup {a_file}
    /\ UNCHANGED <<a_total, a_meta, g_pc, g_i, a_exists, a_file, a_writer,
                   a_wdoc, a_written, c_state, a_pdf, a_download, driveVars,
                   clientVars, batchVars, watchVars, assemblerVars,
                   startupVars>>

NextApi ==
    \/ Generate
    \/ GenStart
    \/ GenItem
    \/ GenProcessDone
    \/ GenComplete
    \/ WriteChunk
    \/ CatalogRequest
    \/ DownloadRequest
    \/ ExternalRead

SpecApi == InitApi /\ [][NextApi]_vars

\* C31: every text an external reader has read from the status file is one
\* of the complete documents that were written, never an empty or partly
\* written one.
C31_ReaderSeesCompleteDocuments ==
    \A text \in a_reads : Parse(text).ok /\ text \in a_written

\* C40: once /catalog has succeeded and recorded the PDF path, the status
\* file keeps that path whatever the generation task of the job does, and
\* a later /download finds the PDF.
C40_RecordedPathStays ==
    (c_state = "done" /\ a_writer = "none") =>
        /\ Parse(a_file).doc.pdfPath = PdfPath
        /\ a_download # "not_found"
====
